---------------------------- MODULE Spec2Model ----------------------------
(***************************************************************************)
(* A model of lazyconf.ParseEnv (src/lazyconf.go): the binding of          *)
(* environment variables to the fields of a record, driven by the          *)
(* per-field `env` tags.                                                   *)
(*                                                                         *)
(* Strings are sequences of lexemes.  A lexeme is one character (",",      *)
(* "1", "x", ...) or one of the literals the code compares against         *)
(* ("required", "default=", "setter=", "parser=", "text", "json", "_"),    *)
(* or a name (an environment key, a method name).  strings.Split,          *)
(* strings.HasPrefix and strings.TrimPrefix work on these sequences.       *)
(***************************************************************************)
EXTENDS Integers, Sequences, FiniteSets, TLC

VARIABLES
    decl,      \* the declaration of the root record type (fields, tags, methods)
    env,       \* the process environment: key -> string, or Unset
    pre,       \* the value of every field before the call
    val,       \* the value of every field of the caller's record
    stack,     \* the ParseEnv activations: <<[path, i]>>, innermost last
    pc,        \* the position inside the current loop iteration
    cur,       \* the locals of the current iteration (the parsed tag, envVal)
    err,       \* the error being returned (NoErr while none)
    calls,     \* every hook invocation so far: [path, hook, recv, arg]
    visited,   \* the fields whose loop iteration has begun, in order
    resolved,  \* path -> the source string resolved for the field's tag
    mech,      \* path -> the mechanism that produced the field's value
    entered,   \* the records ParseEnv was called on, in order (paths)
    phase,     \* "alone": one call runs; "again": a second call on the record
               \* the first has left; "both": two calls run interleaved
    solo,      \* what the calls that ran alone have left, in order
    parked,    \* the call that is not running, while two are interleaved
    turn       \* the number of the call the variables above describe

vars == <<decl, env, pre, val, stack, pc, cur, err, calls, visited, resolved, mech,
          entered, phase, solo, parked, turn>>

-----------------------------------------------------------------------------
(* Bounds of the model.                                                    *)

\* the longest environment value, in lexemes, of the sequence scenarios
MaxLen == 3
\* the number of leaf fields that precede and follow a nested record
MaxSiblings == 1

\* the number of segments that follow the key in the tags of the tag scenarios
MaxOpts == 3

-----------------------------------------------------------------------------
(* Strings.                                                                *)

Comma == ","

Front(s) == SubSeq(s, 1, Len(s) - 1)

Last(s) == s[Len(s)]

RECURSIVE SplitFrom(_, _, _)
\* the segments of s after position i, acc being the segment under way
SplitFrom(s, i, acc) ==
    IF i > Len(s) THEN <<acc>>
    ELSE IF s[i] = Comma THEN <<acc>> \o SplitFrom(s, i + 1, <<>>)
    ELSE SplitFrom(s, i + 1, Append(acc, s[i]))

\* strings.Split(s, ","): never empty, no trimming, empty segments kept
\* a split that drops the empty segments
SplitSkipEmpty(s) == SelectSeq(SplitFrom(s, 1, <<>>), LAMBDA g : g # <<>>)

Split(s) == SplitFrom(s, 1, <<>>)

HasPrefix(s, lexeme) == Len(s) >= 1 /\ s[1] = lexeme

TrimPrefix(s, lexeme) == IF HasPrefix(s, lexeme) THEN Tail(s) ELSE s

RECURSIVE CountCommas(_)
CountCommas(s) ==
    IF s = <<>> THEN 0
    ELSE (IF Head(s) = Comma THEN 1 ELSE 0) + CountCommas(Tail(s))

\* every string of at most n lexemes over the alphabet
StringsUpTo(alphabet, n) == UNION {[1..k -> alphabet] : k \in 0..n}

-----------------------------------------------------------------------------
(* The tag parser (lazyconf.go:43-62).                                     *)

NoTag == <<>>

RECURSIVE ParseOptsStopAtUnknown(_, _)
\* a loop that gives up at the first segment it does not recognize
ParseOptsStopAtUnknown(opts, acc) ==
    IF opts = <<>> THEN acc
    ELSE LET opt == Head(opts)
         IN  IF opt = <<"required">>
             THEN ParseOptsStopAtUnknown(Tail(opts), [acc EXCEPT !.required = TRUE])
             ELSE IF HasPrefix(opt, "default=")
             THEN ParseOptsStopAtUnknown(Tail(opts),
                      [acc EXCEPT !.defaultVal = TrimPrefix(opt, "default=")])
             ELSE IF HasPrefix(opt, "setter=")
             THEN ParseOptsStopAtUnknown(Tail(opts),
                      [acc EXCEPT !.setterName = TrimPrefix(opt, "setter=")])
             ELSE IF HasPrefix(opt, "parser=")
             THEN ParseOptsStopAtUnknown(Tail(opts),
                      [acc EXCEPT !.parserType = TrimPrefix(opt, "parser=")])
             ELSE acc

RECURSIVE ParseOptsFirstDefault(_, _)
\* a loop that keeps the first non-empty default it meets
ParseOptsFirstDefault(opts, acc) ==
    IF opts = <<>> THEN acc
    ELSE LET opt == Head(opts)
             nxt == IF opt = <<"required">> THEN [acc EXCEPT !.required = TRUE]
                    ELSE IF HasPrefix(opt, "default=")
                    THEN IF acc.defaultVal = <<>>
                         THEN [acc EXCEPT !.defaultVal = TrimPrefix(opt, "default=")]
                         ELSE acc
                    ELSE IF HasPrefix(opt, "setter=")
                    THEN [acc EXCEPT !.setterName = TrimPrefix(opt, "setter=")]
                    ELSE IF HasPrefix(opt, "parser=")
                    THEN [acc EXCEPT !.parserType = TrimPrefix(opt, "parser=")]
                    ELSE acc
         IN  ParseOptsFirstDefault(Tail(opts), nxt)

RECURSIVE ParseOpts(_, _)
\* the loop over parts[1:]: a later segment of the same form overwrites
ParseOpts(opts, acc) ==
    IF opts = <<>> THEN acc
    ELSE LET opt == Head(opts)
             nxt == IF opt = <<"required">> THEN [acc EXCEPT !.required = TRUE]
                    ELSE IF HasPrefix(opt, "default=")
                        THEN [acc EXCEPT !.defaultVal = TrimPrefix(opt, "default=")]
                    ELSE IF HasPrefix(opt, "setter=")
                        THEN [acc EXCEPT !.setterName = TrimPrefix(opt, "setter=")]
                    ELSE IF HasPrefix(opt, "parser=")
                        THEN [acc EXCEPT !.parserType = TrimPrefix(opt, "parser=")]
                    ELSE acc
         IN  ParseOpts(Tail(opts), nxt)

ParseTag(tag) ==
    LET parts == Split(tag)
    IN  ParseOpts(Tail(parts),
                  [envKey |-> parts[1], required |-> FALSE, defaultVal |-> <<>>,
                   setterName |-> <<>>, parserType |-> <<>>])

-----------------------------------------------------------------------------
(* Resolution of the source string (lazyconf.go:64-79).                    *)

Unset == <<"(unset)">>

\* os.Getenv: the empty string for a variable that is not set
Getenv(e, key) ==
    IF key \in DOMAIN e /\ e[key] # Unset THEN e[key] ELSE <<>>

\* a lookup that hands every key to the environment
LookupNoSentinel(e, key) == Getenv(e, key)

\* lines 65-70: the key "_" never reaches the environment
Lookup(e, key) == IF key = <<"_">> THEN <<>> ELSE Getenv(e, key)

\* a `required` that is never enforced
ResolveNeverFails(e, spec) ==
    LET envVal == Lookup(e, spec.envKey)
    IN  [ok |-> TRUE, envVal |-> IF envVal = <<>> THEN spec.defaultVal ELSE envVal]

\* a `required` that fails without looking at the default
ResolveRequiredFirst(e, spec) ==
    LET envVal == Lookup(e, spec.envKey)
    IN  IF envVal = <<>> /\ spec.required THEN [ok |-> FALSE, envVal |-> envVal]
        ELSE IF envVal = <<>> THEN [ok |-> TRUE, envVal |-> spec.defaultVal]
        ELSE [ok |-> TRUE, envVal |-> envVal]

\* a `required` that is not enforced on a field whose tag names a setter
ResolveSetterExempt(e, spec) ==
    LET envVal == Lookup(e, spec.envKey)
    IN  IF envVal = <<>>
        THEN IF spec.required /\ spec.defaultVal = <<>> /\ spec.setterName = <<>>
             THEN [ok |-> FALSE, envVal |-> envVal]
             ELSE IF spec.defaultVal # <<>>
                  THEN [ok |-> TRUE, envVal |-> spec.defaultVal]
                  ELSE [ok |-> TRUE, envVal |-> envVal]
        ELSE [ok |-> TRUE, envVal |-> envVal]

\* lines 64-79: [ok, envVal]; ok = FALSE is the MissingRequired return
Resolve(e, spec) ==
    LET envVal == Lookup(e, spec.envKey)
    IN  IF envVal = <<>>
        THEN IF spec.required /\ spec.defaultVal = <<>>
             THEN [ok |-> FALSE, envVal |-> envVal]
             ELSE IF spec.defaultVal # <<>>
                  THEN [ok |-> TRUE, envVal |-> spec.defaultVal]
                  ELSE [ok |-> TRUE, envVal |-> envVal]
        ELSE [ok |-> TRUE, envVal |-> envVal]

-----------------------------------------------------------------------------
(* Types, declarations and values.                                         *)

NoType == [kind |-> "none"]

NoRec == [fields |-> <<>>, methods |-> {}]

\* A type: its reflect.Kind, whether it is time.Duration, what its pointer
\* implements (Scan, UnmarshalText, UnmarshalJSON: "none", or how the method
\* answers), its element type (a slice) and its fields (a struct).
Ty(kind) ==
    [kind |-> kind, dur |-> FALSE, scan |-> "none", text |-> "none",
     json |-> "none", elem |-> NoType, sub |-> NoRec]

SliceOf(elem) == [Ty("slice") EXCEPT !.elem = elem]

StructOf(rec) == [Ty("struct") EXCEPT !.sub = rec]

Duration == [Ty("int64") EXCEPT !.dur = TRUE]

\* A field of a record type: reflect.StructField with its `env` tag;
\* exported = FALSE is a field reflect will not set.
Fld(name, type, tag, exported) ==
    [name |-> name, type |-> type, tag |-> tag, exported |-> exported]

\* A method of the pointer to a record type that a tag may name: it answers
\* nil (ok) or an error, and writes the field `target` of its receiver
\* (0: none), as SetterConfig.SetCustomField writes the sibling `value`.
Method(name, ok, target) == [name |-> name, ok |-> ok, target |-> target]

RECURSIVE RecAt(_, _)
\* the record type reached from record type r by the field path p
RecAt(r, p) ==
    IF p = <<>> THEN r ELSE RecAt(r.fields[Head(p)].type.sub, Tail(p))

FieldAt(r, p) == RecAt(r, Front(p)).fields[Last(p)]

RECURSIVE PathsOf(_, _)
\* the fields of record type r (reached by path p) in the order in which
\* ParseEnv finishes with them: a nested record's fields come before the
\* field that holds the record
PathsOf(r, p) ==
    LET RECURSIVE From(_)
        From(i) ==
            IF i > Len(r.fields) THEN <<>>
            ELSE (IF r.fields[i].type.kind = "struct"
                     THEN PathsOf(r.fields[i].type.sub, Append(p, i))
                     ELSE <<>>)
                 \o <<Append(p, i)>> \o From(i + 1)
    IN  From(1)

AllPaths(r) == PathsOf(r, <<>>)

PathSet(r) == {AllPaths(r)[k] : k \in 1..Len(AllPaths(r))}

\* the position of field path p in the traversal
Pos(r, p) == CHOOSE k \in 1..Len(AllPaths(r)) : AllPaths(r)[k] = p

\* Values carry their sort first, so that any two values compare.
StrV(s) == [k |-> "str", v |-> s]
IntV(n) == [k |-> "int", v |-> n]
BoolV(b) == [k |-> "bool", v |-> b]
ListV(l) == [k |-> "list", v |-> l]
\* what a hook left in the value it was invoked on
HookV(hook, arg) == [k |-> hook, v |-> arg]

\* the zero value of a type
Zero(t) ==
    CASE t.kind = "string" -> StrV(<<>>)
      [] t.kind \in {"int", "int8", "int16", "int64", "uint", "uint8"} -> IntV(0)
      [] t.kind = "bool" -> BoolV(FALSE)
      [] t.kind = "slice" -> ListV(<<>>)
      [] OTHER -> [k |-> "zero", v |-> <<>>]

\* a value a caller may have stored before the call
Stale(t) ==
    CASE t.kind = "string" -> StrV(<<"o">>)
      [] t.kind \in {"int", "int8", "int16", "int64", "uint", "uint8"} -> IntV(7)
      [] t.kind = "bool" -> BoolV(TRUE)
      [] t.kind = "slice" -> ListV(<<[k |-> "stale", v |-> <<>>]>>)
      [] OTHER -> [k |-> "stale", v |-> <<>>]

-----------------------------------------------------------------------------
(* strconv and time parsing.                                               *)

Digits == {"0", "1", "2", "3", "4", "5", "6", "7", "8", "9"}

DigitVal(d) ==
    CASE d = "0" -> 0 [] d = "1" -> 1 [] d = "2" -> 2 [] d = "3" -> 3
      [] d = "4" -> 4 [] d = "5" -> 5 [] d = "6" -> 6 [] d = "7" -> 7
      [] d = "8" -> 8 [] d = "9" -> 9

AllDigits(s) == s # <<>> /\ \A i \in 1..Len(s) : s[i] \in Digits

RECURSIVE Decimal(_)
Decimal(s) == IF s = <<>> THEN 0 ELSE 10 * Decimal(Front(s)) + DigitVal(Last(s))

\* the widths that a value of the model can exceed; the strings of the model
\* are far too short to exceed 32 or 64 bits
FitsSigned(n, bits) ==
    bits >= 32 \/ (-(2 ^ (bits - 1)) <= n /\ n <= 2 ^ (bits - 1) - 1)

FitsUnsigned(n, bits) == bits >= 32 \/ (0 <= n /\ n <= 2 ^ bits - 1)

\* a parse that accepts no sign
ParseIntNoSign(s, bits) ==
    IF AllDigits(s) /\ FitsSigned(Decimal(s), bits)
    THEN [ok |-> TRUE, n |-> Decimal(s)] ELSE [ok |-> FALSE, n |-> 0]

\* strconv.ParseInt(s, 10, bits): [ok, n]
ParseInt(s, bits) ==
    LET signed == Len(s) >= 1 /\ s[1] \in {"-", "+"}
        body   == IF signed THEN Tail(s) ELSE s
        n      == IF signed /\ s[1] = "-" THEN -Decimal(body) ELSE Decimal(body)
    IN  IF AllDigits(body) /\ FitsSigned(n, bits)
        THEN [ok |-> TRUE, n |-> n] ELSE [ok |-> FALSE, n |-> 0]

\* strconv.ParseUint(s, 10, bits): no sign is accepted
ParseUint(s, bits) ==
    IF AllDigits(s) /\ FitsUnsigned(Decimal(s), bits)
    THEN [ok |-> TRUE, n |-> Decimal(s)] ELSE [ok |-> FALSE, n |-> 0]

TrueWords == {"1", "t", "T", "TRUE", "true", "True"}

FalseWords == {"0", "f", "F", "FALSE", "false", "False"}

\* strconv.ParseBool
ParseBool(s) ==
    IF Len(s) = 1 /\ s[1] \in TrueWords THEN [ok |-> TRUE, b |-> TRUE]
    ELSE IF Len(s) = 1 /\ s[1] \in FalseWords THEN [ok |-> TRUE, b |-> FALSE]
    ELSE [ok |-> FALSE, b |-> FALSE]

\* the units of the model, in seconds
UnitSeconds(u) == CASE u = "s" -> 1 [] u = "m" -> 60 [] u = "h" -> 3600

Units == {"s", "m", "h"}

RECURSIVE DurationFrom(_, _, _)
\* the groups <digits><unit> of s from position i; num is the digits read
\* in the group under way
DurationFrom(s, i, num) ==
    IF i > Len(s) THEN [ok |-> num = <<>>, n |-> 0]
    ELSE IF s[i] \in Digits THEN DurationFrom(s, i + 1, Append(num, s[i]))
    ELSE IF s[i] \in Units /\ num # <<>>
        THEN LET rest == DurationFrom(s, i + 1, <<>>)
             IN  [ok |-> rest.ok, n |-> Decimal(num) * UnitSeconds(s[i]) + rest.n]
    ELSE [ok |-> FALSE, n |-> 0]

\* time.ParseDuration on strings of digits and the units s, m, h: [ok, n]
\* with n in seconds
ParseDuration(s) ==
    LET signed == Len(s) >= 1 /\ s[1] \in {"-", "+"}
        body   == IF signed THEN Tail(s) ELSE s
        d      == DurationFrom(body, 1, <<>>)
    IN  IF body = <<"0">> THEN [ok |-> TRUE, n |-> 0]
        ELSE IF body = <<>> \/ ~d.ok THEN [ok |-> FALSE, n |-> 0]
        ELSE [ok |-> TRUE, n |-> IF signed /\ s[1] = "-" THEN -d.n ELSE d.n]

\* the conversion that reflect's SetInt makes to a field of the given width
WrapSigned(n, bits) ==
    IF bits >= 32 THEN n
    ELSE ((n + 2 ^ (bits - 1)) % (2 ^ bits)) - 2 ^ (bits - 1)

\* the conversion that reflect's SetUint makes
WrapUnsigned(n, bits) == IF bits >= 32 THEN n ELSE n % (2 ^ bits)

Bits(kind) ==
    CASE kind = "int8" -> 8 [] kind = "uint8" -> 8 [] kind = "int16" -> 16
      [] OTHER -> 64

-----------------------------------------------------------------------------
(* Errors.  An error carries what its message carries: the field name      *)
(* and/or the environment key; `at` is the path of the field that raised   *)
(* it (not part of the message).                                           *)

NoErr == [kind |-> "nil"]

None == <<"(none)">>

Err(kind, field, key, at) == [kind |-> kind, field |-> field, key |-> key, at |-> at]

\* which operand the message of each fmt.Errorf of the switch carries
KeyErrs == {"InvalidInt", "InvalidUint", "InvalidBool"}

-----------------------------------------------------------------------------
(* The hooks a type or a record may supply.                                *)

\* how a Scan / UnmarshalText / UnmarshalJSON method answers an argument:
\* always nil (CustomType, TextUnmarshalType), always an error
\* (ErrorCustomType), or nil for the strings it knows (README Status.Scan:
\* here the strings of digits)
HookOK(mode, arg) == mode = "ok" \/ (mode = "picky" /\ AllDigits(arg))

\* two attempts made in the other order
TryUnmarshalJSONFirst(t, s) ==
    IF s = <<>> THEN [done |-> FALSE, hooks |-> <<>>]
    ELSE IF t.json # "none" /\ HookOK(t.json, s)
        THEN [done |-> TRUE, hooks |-> <<"UnmarshalJSON">>]
    ELSE LET first == IF t.json # "none" THEN <<"UnmarshalJSON">> ELSE <<>>
         IN  IF t.text # "none"
             THEN [done |-> HookOK(t.text, s), hooks |-> Append(first, "UnmarshalText")]
             ELSE [done |-> FALSE, hooks |-> first]

\* tryUnmarshalMethods (lines 456-478), and the same two attempts made again
\* in the struct and default cases (lines 382-395, 400-413):
\* [done, hooks]: whether a method accepted, and the methods invoked in order
TryUnmarshal(t, s) ==
    IF s = <<>> THEN [done |-> FALSE, hooks |-> <<>>]
    ELSE IF t.text # "none" /\ HookOK(t.text, s)
        THEN [done |-> TRUE, hooks |-> <<"UnmarshalText">>]
    ELSE LET first == IF t.text # "none" THEN <<"UnmarshalText">> ELSE <<>>
         IN  IF t.json # "none"
             THEN [done |-> HookOK(t.json, s), hooks |-> Append(first, "UnmarshalJSON")]
             ELSE [done |-> FALSE, hooks |-> first]

\* the value a successful attempt of TryUnmarshal leaves
UnmarshalledV(u, s) == HookV(Last(u.hooks), s)

\* checkSliceElementsSetter (lines 421-434)
checkSliceElementsSetter(t) == t.kind = "slice" /\ t.elem.scan # "none"

IntKinds == {"int", "int8", "int16", "int64"}

UintKinds == {"uint", "uint8"}

\* the bitSize the slice cases hand to strconv (lines 217, 229, 241, 278,
\* 288, 296)
ElemBits(kind) ==
    CASE kind = "int" -> 32 [] kind = "uint" -> 32 [] kind = "int8" -> 8
      [] kind = "uint8" -> 8 [] kind = "int16" -> 16 [] OTHER -> 64

\* one element of a slice (the body of the loops of lines 193-358):
\* [ok, v, kind, hooks]
CoerceElem(et, vl) ==
    IF et.scan # "none"
    THEN [ok |-> HookOK(et.scan, vl), v |-> HookV("Scan", vl),
          kind |-> "ScanFailed", hooks |-> <<"Scan">>]
    ELSE IF et.kind \in UintKinds
    THEN LET r == ParseUint(vl, ElemBits(et.kind))
         IN  [ok |-> r.ok, v |-> IntV(r.n), kind |-> "InvalidUint", hooks |-> <<>>]
    ELSE IF et.kind = "bool"
    THEN LET r == ParseBool(vl)
         IN  [ok |-> r.ok, v |-> BoolV(r.b), kind |-> "InvalidBool", hooks |-> <<>>]
    ELSE LET u == TryUnmarshal(et, vl)
         IN  IF u.done
             THEN [ok |-> TRUE, v |-> UnmarshalledV(u, vl), kind |-> "nil",
                   hooks |-> u.hooks]
             ELSE IF et.kind = "string"
             THEN [ok |-> TRUE, v |-> StrV(vl), kind |-> "nil", hooks |-> u.hooks]
             ELSE IF et.dur
             THEN LET r == ParseDuration(vl)
                  IN  [ok |-> r.ok, v |-> IntV(r.n), kind |-> "InvalidDuration",
                       hooks |-> u.hooks]
             ELSE LET r == ParseInt(vl, ElemBits(et.kind))
                  IN  [ok |-> r.ok, v |-> IntV(r.n), kind |-> "InvalidInt",
                       hooks |-> u.hooks]

\* a switch with a case for every element kind
ElemSupportedAll(et) == TRUE

\* the element kinds the switch of line 202 has a case for
ElemSupported(et) ==
    et.scan # "none" \/ et.kind \in IntKinds \cup UintKinds \cup {"string", "bool"}

\* a hook invocation on element j of the slice under construction
ElemCalls(hooks, vl, j) ==
    [h \in 1..Len(hooks) |-> [hook |-> hooks[h], arg |-> vl, elem |-> j]]

RECURSIVE CoerceElemsSkipBad(_, _, _, _, _)
\* a loop that leaves out the elements that fail
CoerceElemsSkipBad(et, vals, j, acc, hooks) ==
    IF j > Len(vals) THEN [ok |-> TRUE, v |-> ListV(acc), kind |-> "nil", hooks |-> hooks]
    ELSE LET e == CoerceElem(et, vals[j])
             h == hooks \o ElemCalls(e.hooks, vals[j], j)
         IN  CoerceElemsSkipBad(et, vals, j + 1,
                                IF e.ok THEN Append(acc, e.v) ELSE acc, h)

RECURSIVE CoerceElems(_, _, _, _, _)
\* the loop over vals: stops at the first element that fails, and hands
\* back the slice only when every element is parsed
CoerceElems(et, vals, j, acc, hooks) ==
    IF j > Len(vals) THEN [ok |-> TRUE, v |-> ListV(acc), kind |-> "nil", hooks |-> hooks]
    ELSE LET e == CoerceElem(et, vals[j])
             h == hooks \o ElemCalls(e.hooks, vals[j], j)
         IN  IF e.ok THEN CoerceElems(et, vals, j + 1, Append(acc, e.v), h)
             ELSE [ok |-> FALSE, v |-> ListV(acc), kind |-> e.kind, hooks |-> h]

\* the Slice case (lines 185-366)
CoerceSlice(t, s) ==
    IF ~ElemSupported(t.elem)
    THEN [ok |-> FALSE, v |-> ListV(<<>>), kind |-> "UnsupportedType", hooks |-> <<>>]
    ELSE CoerceElems(t.elem, Split(s), 1, <<>>, <<>>)

FieldCalls(hooks, s) ==
    [h \in 1..Len(hooks) |-> [hook |-> hooks[h], arg |-> s, elem |-> 0]]

\* the switch on the kind of the field (lines 144-415), entered when
\* tryUnmarshalMethods has answered false: [ok, v, kind, hooks]
CoerceKind(t, s) ==
    CASE t.kind = "string" ->
            [ok |-> TRUE, v |-> StrV(s), kind |-> "nil", hooks |-> <<>>]
      [] t.kind \in IntKinds /\ ~t.dur ->
            LET r == ParseInt(s, 64)
            IN  [ok |-> r.ok, v |-> IntV(WrapSigned(r.n, Bits(t.kind))),
                 kind |-> "InvalidInt", hooks |-> <<>>]
      [] t.kind \in IntKinds /\ t.dur ->
            LET r == ParseDuration(s)
            IN  [ok |-> r.ok, v |-> IntV(r.n), kind |-> "InvalidDuration",
                 hooks |-> <<>>]
      [] t.kind \in UintKinds ->
            LET r == ParseUint(s, 64)
            IN  [ok |-> r.ok, v |-> IntV(WrapUnsigned(r.n, Bits(t.kind))),
                 kind |-> "InvalidUint", hooks |-> <<>>]
      [] t.kind = "bool" ->
            LET r == ParseBool(s)
            IN  [ok |-> r.ok, v |-> BoolV(r.b), kind |-> "InvalidBool", hooks |-> <<>>]
      [] t.kind = "slice" -> CoerceSlice(t, s)
      [] OTHER ->
            LET u == TryUnmarshal(t, s)
            IN  [ok |-> u.done,
                 v |-> IF u.done THEN UnmarshalledV(u, s) ELSE Zero(t),
                 kind |-> "UnsupportedType", hooks |-> FieldCalls(u.hooks, s)]

\* lines 137-416 for a non-empty envVal: the implicit unmarshal attempt, then
\* the switch; mech names what produced the value
Coerce(t, s) ==
    LET u == TryUnmarshal(t, s)
    IN  IF u.done
        THEN [ok |-> TRUE, v |-> UnmarshalledV(u, s), kind |-> "nil",
              hooks |-> FieldCalls(u.hooks, s), mech |-> "implicit"]
        ELSE LET c == CoerceKind(t, s)
             IN  [ok |-> c.ok, v |-> c.v, kind |-> c.kind,
                  hooks |-> FieldCalls(u.hooks, s) \o c.hooks,
                  mech |-> IF t.kind \in {"struct", "map"} THEN "implicit"
                           ELSE "builtin"]

-----------------------------------------------------------------------------
(* The loop of ParseEnv (lines 20-419), one field at a time.               *)

Top == stack[Len(stack)]

\* the record type the innermost activation works on (t, line 25)
CurRec == RecAt(decl, Top.rec)

InLoop == stack # <<>> /\ Top.i <= Len(CurRec.fields)

\* field, line 28
CurField == CurRec.fields[Top.i]

CurPath == Append(Top.rec, Top.i)

\* a receiver that is the record of the outermost activation
SetterReceiverRoot(p) == <<>>

\* the receiver of a named setter looked up from the field at path p: val
\* (line 23), the record the innermost activation was called with
SetterReceiver(p) == Front(p)

\* reflect's MethodByName on the receiver (line 83)
MethodByName(rec, name) == {m \in rec.methods : m.name = name}

\* a dispatch that asks for Scan before the named setter
MechanismScanFirst(f, spec, envVal) ==
    IF ~f.exported THEN "notsettable"
    ELSE IF f.type.scan # "none" THEN "scan"
    ELSE IF spec.setterName # <<>> THEN "setter"
    ELSE IF spec.parserType # <<>> /\ envVal # <<>> THEN "hint"
    ELSE IF envVal # <<>> THEN "coerce"
    ELSE "skip"

\* a dispatch that has nothing to hand to the named setter when the source
\* string is empty
MechanismSetterNonEmpty(f, spec, envVal) ==
    IF spec.setterName # <<>> /\ envVal # <<>> THEN "setter"
    ELSE IF spec.setterName # <<>> THEN "skip"
    ELSE IF ~f.exported THEN "notsettable"
    ELSE IF f.type.scan # "none" THEN "scan"
    ELSE IF spec.parserType # <<>> /\ envVal # <<>> THEN "hint"
    ELSE IF envVal # <<>> THEN "coerce"
    ELSE "skip"

\* a dispatch that leaves Scan out when the source string is empty
MechanismScanNonEmpty(f, spec, envVal) ==
    IF spec.setterName # <<>> THEN "setter"
    ELSE IF ~f.exported THEN "notsettable"
    ELSE IF f.type.scan # "none" /\ envVal # <<>> THEN "scan"
    ELSE IF spec.parserType # <<>> /\ envVal # <<>> THEN "hint"
    ELSE IF envVal # <<>> THEN "coerce"
    ELSE "skip"

\* a dispatch that asks whether the field is writable only after Scan
MechanismSettableLast(f, spec, envVal) ==
    IF spec.setterName # <<>> THEN "setter"
    ELSE IF f.type.scan # "none" THEN "scan"
    ELSE IF ~f.exported THEN "notsettable"
    ELSE IF spec.parserType # <<>> /\ envVal # <<>> THEN "hint"
    ELSE IF envVal # <<>> THEN "coerce"
    ELSE "skip"

\* a dispatch that does not look at the parser hint
MechanismNoHint(f, spec, envVal) ==
    IF spec.setterName # <<>> THEN "setter"
    ELSE IF ~f.exported THEN "notsettable"
    ELSE IF f.type.scan # "none" THEN "scan"
    ELSE IF envVal # <<>> THEN "coerce"
    ELSE "skip"

\* a dispatch that hands the empty source string to the coercion as well
MechanismCoerceEmpty(f, spec, envVal) ==
    IF spec.setterName # <<>> THEN "setter"
    ELSE IF ~f.exported THEN "notsettable"
    ELSE IF f.type.scan # "none" THEN "scan"
    ELSE IF spec.parserType # <<>> /\ envVal # <<>> THEN "hint"
    ELSE "coerce"

\* a dispatch that asks whether the field is writable only when there is a
\* string to write
MechanismSettableNonEmpty(f, spec, envVal) ==
    IF spec.setterName # <<>> THEN "setter"
    ELSE IF ~f.exported /\ envVal # <<>> THEN "notsettable"
    ELSE IF ~f.exported THEN "skip"
    ELSE IF f.type.scan # "none" THEN "scan"
    ELSE IF spec.parserType # <<>> /\ envVal # <<>> THEN "hint"
    ELSE IF envVal # <<>> THEN "coerce"
    ELSE "skip"

\* a dispatch that takes a hint other than text and json for no hint
MechanismKnownHints(f, spec, envVal) ==
    IF spec.setterName # <<>> THEN "setter"
    ELSE IF ~f.exported THEN "notsettable"
    ELSE IF f.type.scan # "none" THEN "scan"
    ELSE IF spec.parserType \in {<<"text">>, <<"json">>} /\ envVal # <<>> THEN "hint"
    ELSE IF envVal # <<>> THEN "coerce"
    ELSE "skip"

\* lines 81-142: which of the branches takes the field, in the order the
\* code asks
Mechanism(f, spec, envVal) ==
    IF spec.setterName # <<>> THEN "setter"
    ELSE IF ~f.exported THEN "notsettable"
    ELSE IF f.type.scan # "none" THEN "scan"
    ELSE IF spec.parserType # <<>> /\ envVal # <<>> THEN "hint"
    ELSE IF envVal # <<>> THEN "coerce"
    ELSE "skip"

NoCur ==
    [envKey |-> <<>>, required |-> FALSE, defaultVal |-> <<>>, setterName |-> <<>>,
     parserType |-> <<>>, envVal |-> <<>>]

\* `continue`: on to the next field of the same record
Continue ==
    /\ stack' = [stack EXCEPT ![Len(stack)].i = @ + 1]
    /\ pc' = "field"
    /\ cur' = NoCur
    /\ err' = err

\* an error that is recorded while the loop goes on
FailKeepGoing(e) ==
    /\ err' = e
    /\ pc' = "field"
    /\ cur' = NoCur
    /\ stack' = [stack EXCEPT ![Len(stack)].i = @ + 1]

\* `return fmt.Errorf(...)`
Fail(e) ==
    /\ err' = e
    /\ pc' = "return"
    /\ cur' = NoCur
    /\ stack' = stack

Log(hooks, p, recv) ==
    calls' = calls \o [h \in 1..Len(hooks) |->
                         [path |-> p, hook |-> hooks[h].hook, recv |-> recv,
                          arg |-> hooks[h].arg, elem |-> hooks[h].elem]]

\* lines 31-36: the field is a struct, and ParseEnv is called on its address
Recurse ==
    /\ pc = "field" /\ InLoop
    /\ CurField.type.kind = "struct" /\ CurField.exported
    /\ stack' = Append(stack, [rec |-> CurPath, i |-> 1])
    /\ entered' = Append(entered, CurPath)
    /\ UNCHANGED <<phase, solo, parked, turn, decl, env, pre, val, pc, cur, err, calls, visited, resolved, mech>>

\* line 33: reflect's Interface() panics on the address of a field that was
\* reached through an unexported name
RecursePanic ==
    /\ pc = "field" /\ InLoop
    /\ CurField.type.kind = "struct" /\ ~CurField.exported
    /\ pc' = "panic"
    /\ UNCHANGED <<phase, solo, parked, turn, decl, env, pre, val, stack, cur, err, calls, visited, resolved,
                   mech, entered>>

\* line 418: the loop is over; the caller goes on at line 38
ReturnNil ==
    /\ pc = "field" /\ stack # <<>> /\ ~InLoop
    /\ stack' = Front(stack)
    /\ pc' = IF Len(stack) = 1 THEN "done" ELSE "tag"
    /\ UNCHANGED <<phase, solo, parked, turn, decl, env, pre, val, cur, err, calls, visited, resolved, mech,
                   entered>>

\* a caller that drops the error of the nested activation and goes on
ReturnErrSwallowed ==
    /\ pc = "return"
    /\ stack' = Front(stack)
    /\ pc' = IF Len(stack) = 1 THEN "done" ELSE "tag"
    /\ err' = IF Len(stack) = 1 THEN err ELSE NoErr
    /\ UNCHANGED <<phase, solo, parked, turn, decl, env, pre, val, cur, calls, visited, resolved, mech, entered>>

\* lines 33-35: an activation hands its error to its caller, which returns it
ReturnErr ==
    /\ pc = "return"
    /\ stack' = Front(stack)
    /\ pc' = IF Len(stack) = 1 THEN "done" ELSE "return"
    /\ UNCHANGED <<phase, solo, parked, turn, decl, env, pre, val, cur, err, calls, visited, resolved, mech,
                   entered>>

\* the loop is at line 38 for the current field
AtTag == \/ pc = "tag"
         \/ pc = "field" /\ InLoop /\ CurField.type.kind # "struct"

\* lines 38-41
SkipUntagged ==
    /\ AtTag /\ CurField.tag = NoTag
    /\ visited' = Append(visited, CurPath)
    /\ Continue
    /\ UNCHANGED <<phase, solo, parked, turn, decl, env, pre, val, calls, resolved, mech, entered>>

\* lines 43-79: the tag is parsed and the source string resolved
ResolveField ==
    /\ AtTag /\ CurField.tag # NoTag
    /\ visited' = Append(visited, CurPath)
    /\ LET spec == ParseTag(CurField.tag)
           r    == Resolve(env, spec)
       IN  IF r.ok
           THEN /\ cur' = [envKey |-> spec.envKey, required |-> spec.required,
                           defaultVal |-> spec.defaultVal,
                           setterName |-> spec.setterName,
                           parserType |-> spec.parserType, envVal |-> r.envVal]
                /\ resolved' = [resolved EXCEPT ![CurPath] = r.envVal]
                /\ pc' = "dispatch"
                /\ UNCHANGED <<stack, err>>
           ELSE /\ Fail(Err("MissingRequired", None, spec.envKey, CurPath))
                /\ UNCHANGED resolved
    /\ UNCHANGED <<phase, solo, parked, turn, decl, env, pre, val, calls, mech, entered>>

Dispatch(m) == pc = "dispatch" /\ Mechanism(CurField, cur, cur.envVal) = m

\* lines 81-93: the method the tag names is looked up on val and called
NamedSetter ==
    /\ Dispatch("setter")
    /\ LET recv == SetterReceiver(CurPath)
           ms   == MethodByName(RecAt(decl, recv), cur.setterName)
       IN  IF ms = {}
           THEN /\ Fail(Err("SetterNotFound", CurField.name, None, CurPath))
                /\ UNCHANGED <<val, calls, mech>>
           ELSE LET m == CHOOSE x \in ms : TRUE
                IN  /\ Log(<<[hook |-> "setter", arg |-> cur.envVal, elem |-> 0]>>,
                           CurPath, recv)
                    /\ IF m.ok
                       THEN /\ val' = IF m.target = 0 THEN val
                                      ELSE [val EXCEPT ![Append(recv, m.target)] =
                                                HookV("setter", cur.envVal)]
                            /\ mech' = [mech EXCEPT ![CurPath] = "setter"]
                            /\ Continue
                       ELSE /\ Fail(Err("SetterFailed", CurField.name, None, CurPath))
                            /\ UNCHANGED <<val, mech>>
    /\ UNCHANGED <<phase, solo, parked, turn, decl, env, pre, visited, resolved, entered>>

\* lines 95-98
NotSettable ==
    /\ Dispatch("notsettable")
    /\ Fail(Err("FieldNotSettable", CurField.name, None, CurPath))
    /\ UNCHANGED <<phase, solo, parked, turn, decl, env, pre, val, calls, visited, resolved, mech, entered>>

\* lines 100-110: the Scan method of the field's address
ScanField ==
    /\ Dispatch("scan")
    /\ Log(<<[hook |-> "Scan", arg |-> cur.envVal, elem |-> 0]>>, CurPath, CurPath)
    /\ IF HookOK(CurField.type.scan, cur.envVal)
       THEN /\ val' = [val EXCEPT ![CurPath] = HookV("Scan", cur.envVal)]
            /\ mech' = [mech EXCEPT ![CurPath] = "scan"]
            /\ Continue
       ELSE /\ Fail(Err("ScanFailed", CurField.name, None, CurPath))
            /\ UNCHANGED <<val, mech>>
    /\ UNCHANGED <<phase, solo, parked, turn, decl, env, pre, visited, resolved, entered>>

\* a hint that settles for the decoder the type has
HintHookEither(t, parserType) ==
    IF parserType \in {<<"text">>, <<"json">>} /\ t.text # "none" THEN "UnmarshalText"
    ELSE IF parserType \in {<<"text">>, <<"json">>} /\ t.json # "none" THEN "UnmarshalJSON"
    ELSE "none"

\* lines 115-133: the decoder the hint selects, when the type has it
HintHook(t, parserType) ==
    IF parserType = <<"text">> /\ t.text # "none" THEN "UnmarshalText"
    ELSE IF parserType = <<"json">> /\ t.json # "none" THEN "UnmarshalJSON"
    ELSE "none"

\* lines 112-135
ParserHint ==
    /\ Dispatch("hint")
    /\ LET h    == HintHook(CurField.type, cur.parserType)
           mode == IF h = "UnmarshalText" THEN CurField.type.text
                   ELSE CurField.type.json
       IN  IF h = "none"
           THEN /\ Fail(Err("UnsupportedParserHint", CurField.name, None, CurPath))
                /\ UNCHANGED <<val, calls, mech>>
           ELSE /\ Log(<<[hook |-> h, arg |-> cur.envVal, elem |-> 0]>>, CurPath, CurPath)
                /\ IF HookOK(mode, cur.envVal)
                   THEN /\ val' = [val EXCEPT ![CurPath] = HookV(h, cur.envVal)]
                        /\ mech' = [mech EXCEPT ![CurPath] = "hint"]
                        /\ Continue
                   ELSE /\ Fail(Err("UnmarshalFailed", CurField.name, None, CurPath))
                        /\ UNCHANGED <<val, mech>>
    /\ UNCHANGED <<phase, solo, parked, turn, decl, env, pre, visited, resolved, entered>>

\* line 138, envVal == "": nothing is done for the field
SkipEmpty ==
    /\ Dispatch("skip")
    /\ Continue
    /\ UNCHANGED <<phase, solo, parked, turn, decl, env, pre, val, calls, visited, resolved, mech, entered>>

\* the operands of the error messages of the switch
CoerceErr(kind, f, key, p) ==
    IF kind \in KeyErrs \/ (kind = "InvalidDuration" /\ f.type.kind = "slice")
    THEN Err(kind, None, key, p)
    ELSE IF kind = "InvalidDuration" THEN Err(kind, f.name, key, p)
    ELSE Err(kind, f.name, None, p)

\* a store that appends the elements of a sequence to those the field holds
AssignAppend(old, new) ==
    IF old.k = "list" /\ new.k = "list" THEN ListV(old.v \o new.v) ELSE new

\* reflect.Value.Set and its kin (SetInt, SetString, ...): the field holds
\* the new value, whatever it held; a sequence is built from empty (line
\* 189) and stored whole (line 366)
Assign(old, new) == new

\* lines 137-416 for a non-empty envVal
CoerceField ==
    /\ Dispatch("coerce")
    /\ LET c == Coerce(CurField.type, cur.envVal)
       IN  /\ Log(c.hooks, CurPath, CurPath)
           /\ IF c.ok
              THEN /\ val' = [val EXCEPT ![CurPath] = Assign(@, c.v)]
                   /\ mech' = [mech EXCEPT ![CurPath] = c.mech]
                   /\ Continue
              ELSE /\ Fail(CoerceErr(c.kind, CurField, cur.envKey, CurPath))
                   /\ UNCHANGED <<val, mech>>
    /\ UNCHANGED <<phase, solo, parked, turn, decl, env, pre, visited, resolved, entered>>

Next ==
    \/ Recurse
    \/ RecursePanic
    \/ ReturnNil
    \/ ReturnErr
    \/ SkipUntagged
    \/ ResolveField
    \/ NamedSetter
    \/ NotSettable
    \/ ScanField
    \/ ParserHint
    \/ SkipEmpty
    \/ CoerceField

-----------------------------------------------------------------------------
(* The records and environments the model is run on.                       *)

RECURSIVE Join(_)
\* the segments joined by commas: the text of a tag
Join(segs) ==
    IF Len(segs) = 1 THEN segs[1] ELSE segs[1] \o <<Comma>> \o Join(Tail(segs))

K1 == <<"K1">>
K2 == <<"K2">>
Sentinel == <<"_">>

Seg(present, seg) == IF present THEN <<seg>> ELSE <<>>

\* a record type with one field and no methods
Record1(f) == [fields |-> <<f>>, methods |-> {}]

ResolveParams ==
    [key : {K1, Sentinel}, req : BOOLEAN, def : {<<>>, <<"7">>},
     set : BOOLEAN, sc : {"none", "ok"}, exp : BOOLEAN,
     e : [{K1, Sentinel} -> {Unset, <<>>, <<"1">>}]]

\* One string field under every combination of key, `required` and
\* `default=`, and every environment of K1 and the variable named "_"; the
\* tag may name a setter that the record does not have, the type may have
\* Scan, and the field may be unexported.
ResolveDecl(q) ==
    Record1(Fld("F", [Ty("string") EXCEPT !.scan = q.sc],
                Join(<<q.key>> \o Seg(q.req, <<"required">>)
                               \o Seg(q.def # <<>>, <<"default=">> \o q.def)
                               \o Seg(q.set, <<"setter=", "SetA">>)),
                q.exp))

Answers == {"none", "ok", "fail"}

\* the inner record of the struct types of the tests (CustomType,
\* TextUnmarshalType): one untagged field
Opaque == Record1(Fld("Val", Ty("int64"), NoTag, TRUE))

SetA == <<"SetA">>

\* With a named setter the record may or may not have the method.
MechanismParams ==
    {x \in [kind : {"int", "struct", "map"}, sc : Answers, tx : Answers, js : Answers,
            set : BOOLEAN, hint : {<<>>, <<"text">>, <<"json">>, <<"x">>},
            exp : BOOLEAN,
            ms : {{}, {Method(SetA, TRUE, 1)}, {Method(SetA, FALSE, 1)}},
            e : [{K1} -> {Unset, <<"1">>, <<"x">>}]] :
        /\ ~x.set => x.ms = {}
        /\ x.set => x.js = "none" /\ x.tx # "fail"}

\* One field of a named int, struct or map type under the combinations of
\* the capabilities of its type, a named setter, a parser hint and
\* exportedness.
MechanismDecl(q) ==
    [fields |-> <<Fld("F",
                      [Ty(q.kind) EXCEPT !.scan = q.sc, !.text = q.tx, !.json = q.js,
                           !.sub = IF q.kind = "struct" THEN Opaque ELSE NoRec],
                      Join(<<K1>> \o Seg(q.set, <<"setter=", "SetA">>)
                                  \o Seg(q.hint # <<>>, <<"parser=">> \o q.hint)),
                      q.exp)>>,
     methods |-> q.ms]

\* the lexemes of the environment values of the sequence scenarios
SliceAlphabet == {"1", "3", Comma, "x", "s"}

\* the element types: built-in kinds, time.Duration, a type with Scan that
\* accepts everything (CustomType) or only digits, a string type with
\* UnmarshalText, and a kind with no case (a map)
ElemTypes ==
    {Ty("int"), Ty("int8"), Ty("uint8"), Ty("string"), Ty("bool"), Duration,
     [Ty("struct") EXCEPT !.scan = "ok", !.sub = Opaque],
     [Ty("int") EXCEPT !.scan = "picky"],
     [Ty("string") EXCEPT !.text = "picky"],
     Ty("map")}

SliceParams == [et : ElemTypes, e : [{K1} -> StringsUpTo(SliceAlphabet, MaxLen)]]

\* One sequence field under every environment value of at most MaxLen
\* lexemes.
SliceDecl(q) == Record1(Fld("S", SliceOf(q.et), K1, TRUE))

\* the leaf fields of the tree scenarios: an int (InvalidInt when K1 is no
\* number), a required string (MissingRequired when K2 is unset), and a
\* string bound by the named setter SetA
Leaves ==
    {Fld("A", Ty("int"), K1, TRUE),
     Fld("B", Ty("string"), Join(<<K2, <<"required">>>>), TRUE),
     Fld("C", Ty("string"), Join(<<K1, <<"setter=", "SetA">>>>), TRUE)}

SeqsUpTo(S, n) == UNION {[1..k -> S] : k \in 0..n}

\* the methods a record type of the tree scenarios may have: none, or SetA
\* writing the last field of its receiver
MethodSets(nfields) == {{}, {Method(SetA, TRUE, nfields)}}

\* the records nested in the root of a tree scenario: one or two leaves, or
\* one record nested further
InnerFields ==
    (SeqsUpTo(Leaves, 2) \ {<<>>})
    \cup { <<Fld("M", StructOf([fields |-> <<l>>, methods |-> ms]), NoTag, TRUE)>> :
              l \in Leaves, ms \in MethodSets(1) }

\* the field that holds the nested record: untagged, tagged, or unexported
Holders ==
    {[tag |-> NoTag, exported |-> TRUE], [tag |-> K2, exported |-> TRUE],
     [tag |-> NoTag, exported |-> FALSE]}

TreeParams ==
    {x \in [before : SeqsUpTo(Leaves, 1), inner : InnerFields,
            after : SeqsUpTo(Leaves, MaxSiblings), holder : Holders,
            nms : MethodSets(2), rms : MethodSets(3),
            e : [{K1, K2} -> {Unset, <<"1">>, <<"x">>}]] :
        /\ x.e[K1] # Unset /\ x.e[K2] # <<"x">>
        /\ x.nms # {} => Len(x.inner) = 2
        /\ x.rms # {} => Len(x.before) + 1 + Len(x.after) = 3
        /\ ~x.holder.exported => Len(x.inner) = 1 /\ x.inner[1].name = "A"}

\* A root record: at most one leaf, a nested record, and at most
\* MaxSiblings leaves after it.
TreeDecl(q) ==
    [fields |-> q.before
                \o <<Fld("N", StructOf([fields |-> q.inner, methods |-> q.nms]),
                         q.holder.tag, q.holder.exported)>>
                \o q.after,
     methods |-> q.rms]

DigitOf(n) == CHOOSE d \in Digits : DigitVal(d) = n

RECURSIVE FormatNat(_)
\* strconv.FormatUint(n, 10)
FormatNat(n) ==
    IF n < 10 THEN <<DigitOf(n)>> ELSE Append(FormatNat(n \div 10), DigitOf(n % 10))

\* strconv.FormatInt(n, 10)
FormatInt(n) == IF n < 0 THEN <<"-">> \o FormatNat(-n) ELSE FormatNat(n)

\* strconv.FormatBool
FormatBool(b) == IF b THEN <<"true">> ELSE <<"false">>

\* time.Duration.String for a whole number n of seconds: "0s", "59s",
\* "1m0s", "1h1m1s", with a leading "-" below zero
FormatDuration(n) ==
    LET a == IF n < 0 THEN -n ELSE n
        h == a \div 3600
        m == (a % 3600) \div 60
        body == (IF h > 0 THEN Append(FormatNat(h), "h") ELSE <<>>)
                \o (IF h > 0 \/ m > 0 THEN Append(FormatNat(m), "m") ELSE <<>>)
                \o Append(FormatNat(a % 60), "s")
    IN  IF n < 0 THEN <<"-">> \o body ELSE body

\* the scalar kinds of the switch, without capabilities
ScalarTypes ==
    {Ty("string"), Ty("int"), Ty("int8"), Ty("int16"), Ty("int64"), Ty("uint"),
     Ty("uint8"), Ty("bool"), Duration}

\* values of each kind: the ends of the range of the narrow widths, and
\* values on both sides of zero, of a minute and of an hour
Values(t) ==
    CASE t.kind = "string" -> {StrV(<<>>), StrV(<<"x">>), StrV(<<"-", "1">>)}
      [] t.kind = "bool" -> {BoolV(TRUE), BoolV(FALSE)}
      [] t.dur -> {IntV(n) : n \in {0, 1, 59, 60, 3600, 3661, -90}}
      [] t.kind = "int8" -> {IntV(n) : n \in {-128, -1, 0, 127}}
      [] t.kind = "int16" -> {IntV(n) : n \in {-32768, 0, 32767}}
      [] t.kind = "uint8" -> {IntV(n) : n \in {0, 255}}
      [] t.kind = "uint" -> {IntV(n) : n \in {0, 13, 65536}}
      [] OTHER -> {IntV(n) : n \in {-70000, -1, 0, 13}}

\* the canonical string form of a value of type t
Format(t, v) ==
    CASE t.kind = "string" -> v.v
      [] t.kind = "bool" -> FormatBool(v.v)
      [] t.dur -> FormatDuration(v.v)
      [] t.kind \in UintKinds -> FormatNat(v.v)
      [] OTHER -> FormatInt(v.v)

\* the lexemes of the numerals of the scalar scenarios
NumberAlphabet == {"1", "3", "-"}

\* the environment values of a scalar field: the canonical forms of the
\* values of its kind and, for the integers, every numeral of at most
\* MaxLen lexemes
ScalarStrings(t) ==
    {Format(t, v) : v \in Values(t)}
    \cup (IF t.kind \in IntKinds \cup UintKinds /\ ~t.dur
          THEN StringsUpTo(NumberAlphabet, MaxLen) ELSE {})

ScalarParams == UNION {[t : {t}, e : [{K1} -> ScalarStrings(t)]] : t \in ScalarTypes}

\* One scalar field bound from K1.
ScalarDecl(q) == Record1(Fld("V", q.t, K1, TRUE))

\* the segments the tags of the tag scenarios are made of: the recognized
\* forms, default= three times over (two values and none), a parser that
\* is neither text nor json, and a segment of no recognized form
Segments ==
    {<<"required">>, <<"default=", "7">>, <<"default=", "1">>, <<"default=">>,
     <<"setter=", "SetA">>, <<"parser=", "text">>, <<"parser=", "x">>, <<"3">>}

\* the arrangements of at most n different segments
Arrangements(n) ==
    {a \in SeqsUpTo(Segments, n) :
        \A i, j \in 1..Len(a) : i # j => a[i] # a[j]}

TagParams ==
    [segs : Arrangements(MaxOpts), t : {Ty("string"), SliceOf(Ty("int"))},
     e : [{K1} -> {Unset, <<"1">>}]]

\* One text or sequence field whose tag is the key K1 followed by the
\* segments in the order given, in a record that has the method SetA.
TagDecl(q) ==
    [fields |-> <<Fld("T", q.t, Join(<<K1>> \o q.segs), TRUE)>>,
     methods |-> {Method(SetA, TRUE, 1)}]

\* no second call
NoCall == [pc |-> "absent"]

\* the state in which ParseEnv is entered with a pointer to a record of
\* type d, under environment e
Start(d, e, stale) ==
    /\ decl = d
    /\ env = e
    /\ pre = [p \in PathSet(d) |->
                 IF stale THEN Stale(FieldAt(d, p).type) ELSE Zero(FieldAt(d, p).type)]
    /\ val = pre
    /\ stack = <<[rec |-> <<>>, i |-> 1]>>
    /\ pc = "field"
    /\ cur = NoCur
    /\ err = NoErr
    /\ calls = <<>>
    /\ visited = <<>>
    /\ resolved = [p \in PathSet(d) |-> None]
    /\ mech = [p \in PathSet(d) |-> "none"]
    /\ entered = << <<>> >>
    /\ phase = "alone"
    /\ solo = <<>>
    /\ parked = NoCall
    /\ turn = 1

\* The single-field records are zeroed or hold values of an earlier use; the
\* sequence holds elements of an earlier use; the trees are zeroed.
Init ==
    \/ \E q \in ResolveParams, stale \in BOOLEAN : Start(ResolveDecl(q), q.e, stale)
    \/ \E q \in MechanismParams, stale \in BOOLEAN : Start(MechanismDecl(q), q.e, stale)
    \/ \E q \in ScalarParams, stale \in BOOLEAN : Start(ScalarDecl(q), q.e, stale)
    \/ \E q \in TagParams : Start(TagDecl(q), q.e, FALSE)
    \/ \E q \in SliceParams : Start(SliceDecl(q), q.e, TRUE)
    \/ \E q \in TreeParams : Start(TreeDecl(q), q.e, FALSE)

Spec == Init /\ [][Next]_vars

-----------------------------------------------------------------------------
(* More than one call.                                                     *)

\* the variables of a call that is entered on a record of type d holding p0
Entry(d, p0) ==
    [decl |-> d, pre |-> p0, val |-> p0,
     stack |-> <<[rec |-> <<>>, i |-> 1]>>, pc |-> "field", cur |-> NoCur,
     err |-> NoErr, calls |-> <<>>, visited |-> <<>>,
     resolved |-> [p \in PathSet(d) |-> None],
     mech |-> [p \in PathSet(d) |-> "none"],
     entered |-> << <<>> >>]

\* the variables of the running call
Mine ==
    [decl |-> decl, pre |-> pre, val |-> val, stack |-> stack, pc |-> pc,
     cur |-> cur, err |-> err, calls |-> calls, visited |-> visited,
     resolved |-> resolved, mech |-> mech, entered |-> entered]

\* a resumption that finds the locals of the iteration where the call that
\* ran last has left them
ResumeSharedLocals(c) ==
    /\ decl' = c.decl /\ pre' = c.pre /\ val' = c.val
    /\ stack' = c.stack /\ pc' = c.pc /\ cur' = cur
    /\ err' = c.err /\ calls' = c.calls /\ visited' = c.visited
    /\ resolved' = c.resolved /\ mech' = c.mech /\ entered' = c.entered

\* the call c runs from here on
Resume(c) ==
    /\ decl' = c.decl /\ pre' = c.pre /\ val' = c.val
    /\ stack' = c.stack /\ pc' = c.pc /\ cur' = c.cur
    /\ err' = c.err /\ calls' = c.calls /\ visited' = c.visited
    /\ resolved' = c.resolved /\ mech' = c.mech /\ entered' = c.entered

\* what a call that has returned leaves: its record, its error, the hooks
\* it has invoked, and the environment
Outcome ==
    [decl |-> decl, pre |-> pre, val |-> val, err |-> err, calls |-> calls,
     env |-> env]

\* the type has a hook of its own, or its elements have
Hooked(t) ==
    \/ t.scan # "none" \/ t.text # "none" \/ t.json # "none"
    \/ t.kind = "slice" /\ (\/ t.elem.scan # "none" \/ t.elem.text # "none"
                            \/ t.elem.json # "none")

\* no field of the record type d, nested ones included, has a hook: neither
\* a named setter nor a type with Scan, UnmarshalText or UnmarshalJSON
BuiltIn(d) ==
    \A p \in PathSet(d) :
        LET f == FieldAt(d, p)
        IN  /\ ~Hooked(f.type)
            /\ f.tag # NoTag => ParseTag(f.tag).setterName = <<>>

\* the caller calls ParseEnv once more, on the record a successful call has
\* left, under the same environment
CallAgain ==
    /\ phase = "alone" /\ turn = 1
    /\ pc = "done" /\ err = NoErr
    /\ BuiltIn(decl)
    /\ phase' = "again"
    /\ solo' = <<Outcome>>
    /\ Resume(Entry(decl, val))
    /\ UNCHANGED <<env, parked, turn>>

NextAgain ==
    \/ Next
    \/ CallAgain

SpecAgain == Init /\ [][NextAgain]_vars

\* the records of the second caller: one whose setter writes the int field
\* that follows, and one with a required field
Partners ==
    {[fields |-> <<Fld("C", Ty("string"), Join(<<K1, <<"setter=", "SetA">>>>), TRUE),
                   Fld("A", Ty("int"), K1, TRUE)>>,
      methods |-> {Method(SetA, TRUE, 2)}],
     Record1(Fld("B", Ty("string"), Join(<<K2, <<"required">>>>), TRUE))}

Zeroed(d) == [p \in PathSet(d) |-> Zero(FieldAt(d, p).type)]

\* the first call has returned; another caller calls ParseEnv on a record
\* of its own, under the same environment
NextRecord ==
    /\ phase = "alone" /\ turn = 1 /\ pc = "done"
    /\ solo' = <<Outcome>>
    /\ turn' = 2
    /\ \E d \in Partners : Resume(Entry(d, Zeroed(d)))
    /\ UNCHANGED <<env, phase, parked>>

\* both calls have run alone; they are now made at the same time, each on a
\* fresh instance of its record
Fork ==
    /\ phase = "alone" /\ turn = 2 /\ pc = "done"
    /\ solo' = Append(solo, Outcome)
    /\ phase' = "both"
    /\ turn' = 1
    /\ Resume(Entry(solo[1].decl, solo[1].pre))
    /\ parked' = Entry(decl, pre)
    /\ UNCHANGED env

\* the scheduler takes the processor from the running call and gives it to
\* the other one, which has not returned yet
Switch ==
    /\ phase = "both"
    /\ parked.pc # "done"
    /\ Resume(parked)
    /\ parked' = Mine
    /\ turn' = 3 - turn
    /\ UNCHANGED <<env, phase, solo>>

NextTwo ==
    \/ Next
    \/ NextRecord
    \/ Fork
    \/ Switch

\* The first caller's record is a tree whose root holds the nested record
\* only, or a single field of a named map type under the combinations of
\* hooks.
InitTwo ==
    \/ \E q \in TreeParams :
          /\ q.before = <<>> /\ q.after = <<>>
          /\ Start(TreeDecl(q), q.e, FALSE)
    \/ \E q \in MechanismParams :
          /\ q.kind = "map" /\ q.tx = "none" /\ q.js # "fail" /\ q.e[K1] # Unset
          /\ Start(MechanismDecl(q), q.e, FALSE)

SpecTwo == InitTwo /\ [][NextTwo]_vars

-----------------------------------------------------------------------------
(* The claims.                                                             *)

\* the fields of the record and of the records nested in it (pre has one
\* entry for each)
Paths == DOMAIN pre

TheField(p) == FieldAt(decl, p)

Tagged(p) == TheField(p).tag # NoTag

SpecOf(p) == ParseTag(TheField(p).tag)

\* line 38 has been reached for the field
Visited(p) == \E k \in 1..Len(visited) : visited[k] = p

\* the loop has left the field: by `continue` or by a return
Finished(p) == Visited(p) /\ ~(pc = "dispatch" /\ CurPath = p)

\* the environment holds a non-empty value for the key
Provided(key) == key \in DOMAIN env /\ env[key] \notin {Unset, <<>>}

FailedAt(p, kind) == err # NoErr /\ err.at = p /\ err.kind = kind

CallsOf(p) == SelectSeq(calls, LAMBDA c : c.path = p)

\* C1: for a tagged field whose key K is not "_", the resolved source string
\* is the value of K when that is non-empty; otherwise the declared default,
\* also when `required` is present; otherwise the call fails with
\* MissingRequired (naming K) when `required` is present; otherwise it is the
\* empty string.  A variable set to the empty string counts as unset.
C1_Resolution ==
    \A p \in Paths :
        (Tagged(p) /\ Visited(p) /\ SpecOf(p).envKey # Sentinel) =>
            LET sp == SpecOf(p)
            IN  IF Provided(sp.envKey) THEN resolved[p] = env[sp.envKey]
                ELSE IF sp.defaultVal # <<>> THEN resolved[p] = sp.defaultVal
                ELSE IF sp.required
                    THEN /\ FailedAt(p, "MissingRequired")
                         /\ err.key = sp.envKey
                         /\ resolved[p] = None
                ELSE resolved[p] = <<>>

\* a required field with a default whose variable is set to the empty string
\* has been resolved to its default
C1_Witness ==
    \E p \in Paths :
        /\ Tagged(p) /\ Visited(p)
        /\ SpecOf(p).required /\ SpecOf(p).defaultVal = <<"7">>
        /\ SpecOf(p).envKey = K1 /\ env[K1] = <<>>
        /\ resolved[p] = <<"7">>
        /\ err = NoErr

\* the first field, in traversal order, that is required, has no default and
\* whose key the environment does not provide
MissingFields ==
    {p \in Paths : /\ Tagged(p) /\ SpecOf(p).required /\ SpecOf(p).defaultVal = <<>>
                   /\ ~Provided(SpecOf(p).envKey) /\ SpecOf(p).envKey # Sentinel}

FirstOf(S) == CHOOSE p \in S : \A q \in S : Pos(decl, p) <= Pos(decl, q)

\* C2 as claimed: a record with a required field that has no default and an
\* unset key fails with MissingRequired naming that key, whatever its other
\* fields are.
C2_AsClaimed ==
    (pc = "done" /\ MissingFields # {}) =>
        /\ err # NoErr /\ err.kind = "MissingRequired"
        /\ \E p \in MissingFields : err.key = SpecOf(p).envKey

\* C2 amended: such a record never makes ParseEnv return nil; the error is
\* MissingRequired naming the key of the first such field unless a field
\* that precedes it in traversal order has failed, whose error is returned.
C2_MissingRequired ==
    (pc = "done" /\ MissingFields # {}) =>
        LET p == FirstOf(MissingFields)
        IN  /\ err # NoErr
            /\ \/ FailedAt(p, "MissingRequired") /\ err.key = SpecOf(p).envKey
               \/ Pos(decl, err.at) < Pos(decl, p)

\* the call failed with MissingRequired at a field that other, successfully
\* bound, fields precede
C2_Witness ==
    /\ pc = "done" /\ err # NoErr /\ err.kind = "MissingRequired"
    /\ err.at \in MissingFields
    /\ \E q \in Paths : Pos(decl, q) < Pos(decl, err.at) /\ mech[q] # "none"

\* C3: a field whose key is "_" is resolved to its default when it has one
\* and to the empty string otherwise (which fails a `required` field with no
\* default), whatever the environment holds, a variable named "_" included.
C3_Sentinel ==
    \A p \in Paths :
        (Tagged(p) /\ Visited(p) /\ SpecOf(p).envKey = Sentinel) =>
            LET sp == SpecOf(p)
            IN  IF sp.defaultVal # <<>> THEN resolved[p] = sp.defaultVal
                ELSE IF sp.required
                    THEN FailedAt(p, "MissingRequired") /\ resolved[p] = None
                ELSE resolved[p] = <<>>

\* a field with key "_" and no default is resolved to the empty string while
\* the variable "_" is set
C3_Witness ==
    \E p \in Paths :
        /\ Tagged(p) /\ Visited(p) /\ SpecOf(p).envKey = Sentinel
        /\ SpecOf(p).defaultVal = <<>>
        /\ Provided(Sentinel)
        /\ resolved[p] = <<>>

\* what the precedence order asks for a field whose source string is s
Expected(p, s) ==
    LET f == TheField(p)
        sp == SpecOf(p)
    IN  IF sp.setterName # <<>> THEN "setter"
        ELSE IF f.type.scan # "none" THEN "scan"
        ELSE IF sp.parserType # <<>> THEN "hint"
        ELSE IF \/ f.type.text # "none" /\ HookOK(f.type.text, s)
                \/ f.type.json # "none" /\ HookOK(f.type.json, s)
            THEN "implicit"
        ELSE "builtin"

HooksOf(p) == {CallsOf(p)[k].hook : k \in 1..Len(CallsOf(p))}

\* C4: the mechanism that produces the value of a tagged field is the first
\* applicable one of named setter, Scan, parser hint, implicit text/JSON
\* unmarshal, built-in coercion; the hooks of a mechanism of lower rank are
\* not invoked: with a named setter only the setter is called, with Scan
\* (and no setter) only Scan, with a hint (and neither) only the hinted
\* decoder.
C4_Precedence ==
    \A p \in Paths :
        (Tagged(p) /\ Visited(p)) =>
            LET f == TheField(p)
                sp == SpecOf(p)
            IN  /\ mech[p] # "none" => mech[p] = Expected(p, resolved[p])
                /\ sp.setterName # <<>> => HooksOf(p) \subseteq {"setter"}
                /\ (sp.setterName = <<>> /\ f.type.scan # "none") =>
                        HooksOf(p) \subseteq {"Scan"}
                /\ (sp.setterName = <<>> /\ f.type.scan = "none"
                        /\ sp.parserType # <<>>) =>
                        HooksOf(p) \subseteq {HintHook(f.type, sp.parserType)}
                /\ mech[p] = "setter" => Len(CallsOf(p)) = 1

\* a field whose type has Scan and whose tag names a setter has been bound:
\* by the setter, called once, and by nothing else
C4_Witness ==
    \E p \in Paths :
        /\ Tagged(p) /\ Finished(p)
        /\ TheField(p).type.scan = "ok"
        /\ SpecOf(p).setterName = SetA
        /\ mech[p] = "setter"
        /\ Len(CallsOf(p)) = 1 /\ CallsOf(p)[1].hook = "setter"

\* whether the field at p, processed on its own, ends in an error
WouldFail(p) ==
    LET f == TheField(p)
        sp == SpecOf(p)
        r == Resolve(env, sp)
        m == Mechanism(f, sp, r.envVal)
        ms == MethodByName(RecAt(decl, SetterReceiver(p)), sp.setterName)
        h == HintHook(f.type, sp.parserType)
    IN  /\ Tagged(p)
        /\ \/ ~r.ok
           \/ m = "setter" /\ (ms = {} \/ \E x \in ms : ~x.ok)
           \/ m = "notsettable"
           \/ m = "scan" /\ ~HookOK(f.type.scan, r.envVal)
           \/ m = "hint" /\ (h = "none" \/ ~HookOK(IF h = "UnmarshalText" THEN f.type.text
                                                     ELSE f.type.json, r.envVal))
           \/ m = "coerce" /\ ~Coerce(f.type, r.envVal).ok

Failing == {p \in Paths : WouldFail(p)}

IsPrefix(a, b) == Len(a) <= Len(b) /\ a = SubSeq(b, 1, Len(a))

\* C5: fields are processed in declaration order, a nested record at the
\* position of the field that holds it; the error returned is the error of
\* the first field of that order that fails, and after an error, raised in
\* a nested record or not, no further field is processed.
C5_FailFast ==
    /\ IsPrefix(visited, AllPaths(decl))
    /\ err # NoErr => err.at = Last(visited) /\ pc \in {"return", "done"}
    /\ pc = "done" =>
          IF Failing = {} THEN err = NoErr /\ visited = AllPaths(decl)
          ELSE err # NoErr /\ err.at = FirstOf(Failing)

\* the call has returned the error of a field of a nested record while a
\* later field of the root, which would fail as well, was never reached
C5_Witness ==
    /\ pc = "done" /\ err # NoErr /\ Len(err.at) >= 2
    /\ \E q \in Failing : /\ Len(q) = 1
                          /\ Pos(decl, q) > Pos(decl, err.at)
                          /\ ~Visited(q)

After(p) == {q \in Paths : Pos(decl, q) > Pos(decl, p)}

Before(p) == {q \in Paths : Pos(decl, q) < Pos(decl, p)}

\* the field a call of a named setter has written, as a set of paths
SetterTarget(c) ==
    {Append(c.recv, m.target) :
        m \in {x \in MethodByName(RecAt(decl, c.recv), SpecOf(c.path).setterName) :
                  x.ok /\ x.target # 0}}

\* some call of a named setter, made for a field before F, has left its
\* argument in the field at p
WrittenBySetter(p) ==
    \E k \in 1..Len(calls) :
        /\ calls[k].hook = "setter"
        /\ p \in SetterTarget(calls[k])
        /\ val[p] = HookV("setter", calls[k].arg)

\* the value the mechanism recorded for p assigns from the source string
BoundValue(p) ==
    CASE mech[p] = "scan" -> HookV("Scan", resolved[p])
      [] mech[p] = "hint" -> HookV(HintHook(TheField(p).type, SpecOf(p).parserType),
                                   resolved[p])
      [] OTHER -> Coerce(TheField(p).type, resolved[p]).v

\* C6 as claimed: after a call that fails at F every field that follows F
\* holds its value of before the call and has had none of its hooks invoked,
\* and every field that precedes F keeps the value binding gave it.
C6_AsClaimed ==
    (pc = "done" /\ err # NoErr) =>
        /\ \A p \in After(err.at) : val[p] = pre[p] /\ CallsOf(p) = <<>>
        /\ \A p \in Before(err.at) :
               mech[p] \in {"scan", "hint", "implicit", "builtin"} =>
                   val[p] = BoundValue(p) \/ WrittenBySetter(p)

\* C6 amended: after a call that fails at F, no hook of a field that follows
\* F has been invoked and ParseEnv has bound no such field; it holds its
\* value of before the call unless a named setter invoked for a field that
\* precedes F wrote it.  Every field that precedes F keeps the value that
\* binding (or a later named setter) gave it: nothing is rolled back.
C6_Frame ==
    (pc = "done" /\ err # NoErr) =>
        /\ \A p \in After(err.at) :
               /\ CallsOf(p) = <<>> /\ mech[p] = "none" /\ resolved[p] = None
               /\ val[p] = pre[p] \/ WrittenBySetter(p)
        /\ \A p \in Before(err.at) :
               mech[p] \in {"scan", "hint", "implicit", "builtin"} =>
                   val[p] = BoundValue(p) \/ WrittenBySetter(p)

\* the call has failed after it bound an earlier field to a new value, and
\* a field follows the failing one
C6_Witness ==
    /\ pc = "done" /\ err # NoErr
    /\ After(err.at) # {}
    /\ \E p \in Before(err.at) : /\ mech[p] = "builtin"
                                 /\ val[p] # pre[p]
                                 /\ val[p] = BoundValue(p)

\* the positions that bound the segments of s: those of its commas, and the
\* two ends
Boundaries(s) == {0, Len(s) + 1} \cup {k \in 1..Len(s) : s[k] = Comma}

NthBoundary(s, n) ==
    CHOOSE b \in Boundaries(s) : Cardinality({c \in Boundaries(s) : c < b}) = n

\* segment i of s: what stands between comma i-1 and comma i
Segment(s, i) == SubSeq(s, NthBoundary(s, i - 1) + 1, NthBoundary(s, i) - 1)

NumSegments(s) == CountCommas(s) + 1

\* a tagged sequence field with a non-empty source string that the switch
\* of the kinds is to coerce element by element
SliceFields ==
    {p \in Paths : /\ Tagged(p) /\ Finished(p)
                   /\ TheField(p).type.kind = "slice"
                   /\ ElemSupported(TheField(p).type.elem)
                   /\ SpecOf(p).setterName = <<>> /\ SpecOf(p).parserType = <<>>
                   /\ resolved[p] \notin {None, <<>>}}

BadSegments(p) ==
    {i \in 1..NumSegments(resolved[p]) :
        ~CoerceElem(TheField(p).type.elem, Segment(resolved[p], i)).ok}

\* C7: when an element of the source string of a sequence field fails to
\* coerce or to scan, at whatever position, the call fails at that field
\* with the error kind of the element and the field keeps its value of
\* before the call.
C7_AllOrNothing ==
    \A p \in SliceFields :
        BadSegments(p) # {} =>
            LET i == CHOOSE b \in BadSegments(p) : TRUE
            IN  /\ FailedAt(p, CoerceElem(TheField(p).type.elem,
                                          Segment(resolved[p], i)).kind)
                /\ val[p] = pre[p]
                /\ mech[p] = "none"

\* a sequence of int whose first segment parses and whose last does not has
\* failed with InvalidInt, and still holds the non-empty sequence of before
C7_Witness ==
    \E p \in SliceFields :
        /\ TheField(p).type.elem = Ty("int")
        /\ NumSegments(resolved[p]) >= 2
        /\ 1 \notin BadSegments(p)
        /\ NumSegments(resolved[p]) \in BadSegments(p)
        /\ pc = "done" /\ FailedAt(p, "InvalidInt")
        /\ val[p] = pre[p] /\ pre[p] # Zero(TheField(p).type)

\* C8: on success the sequence has one element per segment of the source
\* string split on ',', in order, element i being the coercion of segment
\* i; an empty segment is an element like any other: the empty text for a
\* text element, a failure for a numeric, boolean or duration element.
C8_Split ==
    \A p \in SliceFields :
        LET s == resolved[p]
            et == TheField(p).type.elem
        IN  /\ mech[p] # "none" =>
                  /\ Len(val[p].v) = NumSegments(s)
                  /\ \A i \in 1..NumSegments(s) :
                        val[p].v[i] = CoerceElem(et, Segment(s, i)).v
            /\ (\E i \in 1..NumSegments(s) : Segment(s, i) = <<>>) =>
                  IF et.scan = "none" /\ et.kind # "string"
                  THEN mech[p] = "none" /\ FailedAt(p, CoerceElem(et, <<>>).kind)
                  ELSE et = Ty("string") =>
                         /\ mech[p] = "builtin"
                         /\ \E i \in 1..NumSegments(s) : val[p].v[i] = StrV(<<>>)

\* a sequence of strings bound from ",x": two elements, the first empty
C8_Witness ==
    \E p \in SliceFields :
        /\ TheField(p).type.elem = Ty("string")
        /\ resolved[p] = <<Comma, "x">>
        /\ mech[p] = "builtin"
        /\ val[p] = ListV(<<StrV(<<>>), StrV(<<"x">>)>>)

\* the fields whose declared type is a structured record
StructFields == {p \in Paths : TheField(p).type.kind = "struct"}

\* C9 as claimed: every field whose type is a structured record is recursed
\* into, tagged or not: once the loop is past the field, or has stopped at
\* it, without an error, ParseEnv has been entered for the record it holds.
C9_AsClaimed ==
    \A p \in StructFields :
        (err = NoErr /\ (Visited(p) \/ (pc = "panic" /\ CurPath = p))) =>
            \E k \in 1..Len(entered) : entered[k] = p

Resolved == {p \in Paths : resolved[p] # None /\ ~(pc = "dispatch" /\ CurPath = p)}

\* the fields of Resolved whose tag names a setter that the record holding
\* them has
SetterFields ==
    {p \in Resolved :
        /\ SpecOf(p).setterName # <<>>
        /\ MethodByName(RecAt(decl, Front(p)), SpecOf(p).setterName) # {}}

\* C11: the method a tag names is invoked exactly once with the resolved
\* source string, the empty one included; its error fails the call with
\* SetterFailed; and ParseEnv applies no other hook or coercion to the field
\* and does not write it (what the field holds afterwards is its value of
\* before the call or what a named setter stored), writable or not.
C11_SetterOnce ==
    \A p \in SetterFields :
        LET m == CHOOSE x \in MethodByName(RecAt(decl, Front(p)), SpecOf(p).setterName) :
                    TRUE
        IN  /\ Len(CallsOf(p)) = 1
            /\ CallsOf(p)[1].hook = "setter"
            /\ CallsOf(p)[1].arg = resolved[p]
            /\ IF m.ok THEN mech[p] = "setter" /\ (err # NoErr => err.at # p)
               ELSE FailedAt(p, "SetterFailed") /\ mech[p] = "none"
            /\ val[p] = pre[p] \/ WrittenBySetter(p)

\* an unexported field whose variable is unset, not required and without a
\* default, has had its setter called once, with the empty string
C11_Witness ==
    \E p \in SetterFields :
        /\ ~TheField(p).exported
        /\ ~Provided(SpecOf(p).envKey) /\ resolved[p] = <<>>
        /\ Len(CallsOf(p)) = 1 /\ CallsOf(p)[1].arg = <<>>
        /\ mech[p] = "setter" /\ err = NoErr

\* the fields of Resolved with no named setter whose type has Scan
ScanFields ==
    {p \in Resolved : SpecOf(p).setterName = <<>> /\ TheField(p).type.scan # "none"}

\* Scan, and nothing else, has been applied to the field at p, with its
\* source string
ScannedOnly(p) ==
    /\ Len(CallsOf(p)) = 1
    /\ CallsOf(p)[1].hook = "Scan"
    /\ CallsOf(p)[1].arg = resolved[p]
    /\ IF HookOK(TheField(p).type.scan, resolved[p])
       THEN /\ mech[p] = "scan"
            /\ val[p] = HookV("Scan", resolved[p]) \/ WrittenBySetter(p)
            /\ err # NoErr => err.at # p
       ELSE /\ FailedAt(p, "ScanFailed")
            /\ mech[p] = "none"
            /\ val[p] = pre[p] \/ WrittenBySetter(p)

\* C12 as claimed: every tagged field with no named setter whose type has
\* Scan is handed to Scan, whatever its source string; the error of Scan is
\* ScanFailed; nothing else is applied to the field.
C12_AsClaimed == \A p \in ScanFields : ScannedOnly(p)

\* C12 amended: the same for the fields that are writable; a field that is
\* not writable fails with FieldNotSettable and its Scan is not invoked.
C12_Scan ==
    \A p \in ScanFields :
        IF TheField(p).exported THEN ScannedOnly(p)
        ELSE FailedAt(p, "FieldNotSettable") /\ CallsOf(p) = <<>> /\ mech[p] = "none"

\* a writable field with a parser hint and an empty source string has been
\* bound by Scan, called once with the empty string
C12_Witness ==
    \E p \in ScanFields :
        /\ TheField(p).exported
        /\ SpecOf(p).parserType # <<>>
        /\ resolved[p] = <<>>
        /\ mech[p] = "scan"
        /\ Len(CallsOf(p)) = 1 /\ CallsOf(p)[1].arg = <<>>

\* the fields of Resolved that are not writable
Unexported == {p \in Resolved : ~TheField(p).exported}

\* C13 as claimed: FieldNotSettable is raised only once the named setter and
\* Scan are both ruled out: a field that is not writable and has one of them
\* is bound through it, and FieldNotSettable means the field has neither.
C13_AsClaimed ==
    \A p \in Unexported :
        FailedAt(p, "FieldNotSettable") <=>
            (SpecOf(p).setterName = <<>> /\ TheField(p).type.scan = "none")

\* C13 amended: FieldNotSettable is raised once the named setter is ruled
\* out and before Scan is looked for: a field that is not writable is bound
\* through its named setter without this error, and fails with
\* FieldNotSettable whenever its tag names no setter, whether its type has
\* Scan or not and whatever its source string; Scan is then not invoked.
C13_NotSettable ==
    /\ \A p \in Unexported :
          /\ FailedAt(p, "FieldNotSettable") <=> SpecOf(p).setterName = <<>>
          /\ SpecOf(p).setterName = <<>> => CallsOf(p) = <<>> /\ val[p] = pre[p]
    /\ \A p \in Resolved : TheField(p).exported => ~FailedAt(p, "FieldNotSettable")

\* a field that is not writable and whose type has a Scan that accepts
\* everything has failed with FieldNotSettable, Scan not called
C13_Witness ==
    \E p \in Unexported :
        /\ SpecOf(p).setterName = <<>>
        /\ TheField(p).type.scan = "ok"
        /\ FailedAt(p, "FieldNotSettable")
        /\ CallsOf(p) = <<>>
        /\ pc = "done"

\* the writable fields of Resolved that neither a named setter nor Scan
\* takes
Plain ==
    {p \in Resolved : /\ TheField(p).exported
                      /\ SpecOf(p).setterName = <<>>
                      /\ TheField(p).type.scan = "none"}

\* the fields of Plain with parser=text or parser=json whose type lacks the
\* decoder the hint names
BadHint ==
    {p \in Plain :
        \/ SpecOf(p).parserType = <<"text">> /\ TheField(p).type.text = "none"
        \/ SpecOf(p).parserType = <<"json">> /\ TheField(p).type.json = "none"}

\* C14 as claimed: a hint that names a decoder the type lacks fails the call
\* with UnsupportedParserHint for every source string.
C14_AsClaimed == \A p \in BadHint : FailedAt(p, "UnsupportedParserHint")

\* C14 amended: it does so for every non-empty source string, the type
\* having the other decoder or not; with an empty source string the hint is
\* not looked at, the field raises no error and is left as it was.
C14_UnsupportedHint ==
    \A p \in BadHint :
        /\ CallsOf(p) = <<>> /\ mech[p] = "none" /\ val[p] = pre[p]
        /\ IF resolved[p] # <<>> THEN FailedAt(p, "UnsupportedParserHint")
           ELSE err # NoErr => err.at # p

\* parser=text on a type that has UnmarshalJSON only, with a non-empty
\* source string: UnsupportedParserHint, the JSON decoder not called
C14_Witness ==
    \E p \in BadHint :
        /\ SpecOf(p).parserType = <<"text">>
        /\ TheField(p).type.json = "ok"
        /\ resolved[p] # <<>>
        /\ FailedAt(p, "UnsupportedParserHint")
        /\ CallsOf(p) = <<>>

\* the fields of Plain with parser=text or parser=json whose type has both
\* decoders
BothDecoders ==
    {p \in Plain : /\ SpecOf(p).parserType \in {<<"text">>, <<"json">>}
                   /\ TheField(p).type.text # "none"
                   /\ TheField(p).type.json # "none"}

\* the decoder parser=text, resp. parser=json, names
Hinted(p) == IF SpecOf(p).parserType = <<"text">> THEN "UnmarshalText" ELSE "UnmarshalJSON"

\* how the type of p answers the decoder its hint names
HintedMode(p) ==
    IF SpecOf(p).parserType = <<"text">> THEN TheField(p).type.text
    ELSE TheField(p).type.json

\* C15: on a type with both decoders the hint selects one: the other is
\* never invoked for the field, the selected one is invoked once with a
\* non-empty source string, and its error is returned as UnmarshalFailed,
\* with no second attempt by the other decoder or by the built-in coercion.
C15_HintSelects ==
    \A p \in BothDecoders :
        /\ HooksOf(p) \subseteq {Hinted(p)}
        /\ resolved[p] # <<>> =>
              /\ Len(CallsOf(p)) = 1 /\ CallsOf(p)[1].arg = resolved[p]
              /\ IF HookOK(HintedMode(p), resolved[p])
                 THEN /\ mech[p] = "hint"
                      /\ val[p] = HookV(Hinted(p), resolved[p])
                      /\ err # NoErr => err.at # p
                 ELSE /\ FailedAt(p, "UnmarshalFailed")
                      /\ mech[p] = "none" /\ val[p] = pre[p]

\* parser=text on a type whose text decoder rejects and whose JSON decoder
\* would accept: UnmarshalFailed after the one call of the text decoder
C15_Witness ==
    \E p \in BothDecoders :
        /\ SpecOf(p).parserType = <<"text">>
        /\ TheField(p).type.text = "fail" /\ TheField(p).type.json = "ok"
        /\ FailedAt(p, "UnmarshalFailed")
        /\ Len(CallsOf(p)) = 1 /\ CallsOf(p)[1].hook = "UnmarshalText"

\* the fields of Plain without a parser hint that are no sequences and have
\* a non-empty source string
Fallback ==
    {p \in Plain : /\ SpecOf(p).parserType = <<>>
                   /\ TheField(p).type.kind # "slice"
                   /\ resolved[p] # <<>>}

TextAccepts(p) ==
    TheField(p).type.text # "none" /\ HookOK(TheField(p).type.text, resolved[p])

JSONAccepts(p) ==
    TheField(p).type.json # "none" /\ HookOK(TheField(p).type.json, resolved[p])

\* the attempts the fallback is to make, in order: the text decoder if the
\* type has it, then the JSON decoder if the type has it and the text
\* decoder did not accept
Attempts(p) ==
    (IF TheField(p).type.text # "none" THEN <<"UnmarshalText">> ELSE <<>>)
    \o (IF TheField(p).type.json # "none" /\ ~TextAccepts(p)
        THEN <<"UnmarshalJSON">> ELSE <<>>)

HookSeq(p) == [k \in 1..Len(CallsOf(p)) |-> CallsOf(p)[k].hook]

\* the field at p holds v, or what a named setter of another field stored
\* in it
Holds(p, v) == val[p] = v \/ WrittenBySetter(p)

\* C16: without setter, Scan and hint, a non-empty source string is offered
\* to the text decoder first and to the JSON decoder second, before the
\* built-in coercion; a decoder that rejects raises no error, the next
\* mechanism is tried, and the call fails at the field only when the last
\* one, the built-in rule of its kind, fails as well.
C16_Fallback ==
    \A p \in Fallback :
        LET t == TheField(p).type
            b == CoerceKind(t, resolved[p])
        IN  /\ IsPrefix(Attempts(p), HookSeq(p))
            /\ ~FailedAt(p, "UnmarshalFailed")
            /\ TextAccepts(p) =>
                  /\ HookSeq(p) = <<"UnmarshalText">>
                  /\ mech[p] = "implicit"
                  /\ Holds(p, HookV("UnmarshalText", resolved[p]))
            /\ (~TextAccepts(p) /\ JSONAccepts(p)) =>
                  /\ HookSeq(p) = Attempts(p)
                  /\ mech[p] = "implicit"
                  /\ Holds(p, HookV("UnmarshalJSON", resolved[p]))
            /\ (~TextAccepts(p) /\ ~JSONAccepts(p)) =>
                  IF b.ok THEN mech[p] = "builtin" /\ Holds(p, b.v)
                               /\ (err # NoErr => err.at # p)
                  ELSE FailedAt(p, b.kind) /\ mech[p] = "none" /\ Holds(p, pre[p])

\* an int whose type has both decoders, both rejecting: they were called in
\* the order text, JSON, and the field is bound by the integer rule
C16_Witness ==
    \E p \in Fallback :
        /\ TheField(p).type.kind = "int"
        /\ TheField(p).type.text = "fail" /\ TheField(p).type.json = "fail"
        /\ HookSeq(p) = <<"UnmarshalText", "UnmarshalJSON">>
        /\ mech[p] = "builtin" /\ val[p] = IntV(1)
        /\ err = NoErr

\* the fields of Plain without a parser hint whose source string is empty
EmptySource == {p \in Plain : SpecOf(p).parserType = <<>> /\ resolved[p] = <<>>}

\* C17: a writable tagged field with an empty source string and no setter,
\* Scan or hint is not written and none of its decoders is invoked, whatever
\* its type: it raises no error and holds its value of before the call.
C17_EmptyUntouched ==
    \A p \in EmptySource :
        /\ CallsOf(p) = <<>>
        /\ mech[p] = "none"
        /\ Holds(p, pre[p])
        /\ err # NoErr => err.at # p

\* a field whose type has a text decoder that accepts everything, holding a
\* value of an earlier use, still holds it after a successful call that
\* resolved it to the empty string
C17_Witness ==
    \E p \in EmptySource :
        /\ TheField(p).type.text = "ok"
        /\ pc = "done" /\ err = NoErr
        /\ val[p] = pre[p] /\ pre[p] # Zero(TheField(p).type)
        /\ CallsOf(p) = <<>>

\* the width of the narrow integer kinds
Width(kind) == CASE kind \in {"int8", "uint8"} -> 8 [] kind = "int16" -> 16

\* the fields of Plain of a narrow integer kind whose source string is a
\* base-10 numeral of a value outside the range of the kind
OutOfRange ==
    {p \in Plain :
        LET k == TheField(p).type.kind
            s == resolved[p]
            neg == Len(s) >= 2 /\ s[1] = "-"
            body == IF neg THEN Tail(s) ELSE s
            n == IF neg THEN -Decimal(body) ELSE Decimal(body)
        IN  /\ k \in {"int8", "int16", "uint8"}
            /\ TheField(p).type.text = "none" /\ TheField(p).type.json = "none"
            /\ SpecOf(p).parserType = <<>>
            /\ AllDigits(body)
            /\ IF k = "uint8" THEN ~neg /\ n > 2 ^ Width(k) - 1
               ELSE n < -(2 ^ (Width(k) - 1)) \/ n > 2 ^ (Width(k) - 1) - 1}

\* C18 as claimed: a numeral of a value outside the range of the declared
\* width fails the call with InvalidInt, resp. InvalidUint, and the field is
\* assigned no wrapped value.
C18_AsClaimed ==
    \A p \in OutOfRange :
        /\ FailedAt(p, IF TheField(p).type.kind = "uint8" THEN "InvalidUint"
                       ELSE "InvalidInt")
        /\ mech[p] = "none"
        /\ Holds(p, pre[p])

\* the fields of Plain of a scalar kind, with the values of that kind
Scalars ==
    {p \in Plain : TheField(p).type \in ScalarTypes /\ SpecOf(p).parserType = <<>>}

\* C19 as claimed: a scalar field bound to the canonical string form of a
\* value v of its kind is bound without error and holds v.
C19_AsClaimed ==
    \A p \in Scalars :
        \A v \in Values(TheField(p).type) :
            resolved[p] = Format(TheField(p).type, v) =>
                /\ err # NoErr => err.at # p
                /\ val[p] = v

\* C19 amended: it is, for every value whose canonical form is not empty;
\* the one value with an empty form, the empty text, raises no error either
\* but leaves the field unwritten, at its value of before the call.
C19_LeftInverse ==
    \A p \in Scalars :
        \A v \in Values(TheField(p).type) :
            resolved[p] = Format(TheField(p).type, v) =>
                /\ err # NoErr => err.at # p
                /\ IF Format(TheField(p).type, v) # <<>>
                   THEN val[p] = v /\ mech[p] = "builtin"
                   ELSE val[p] = pre[p] /\ mech[p] = "none"

\* a duration field bound to "1h1m1s" holds 3661 seconds
C19_Witness ==
    \E p \in Scalars :
        /\ TheField(p).type = Duration
        /\ resolved[p] = <<"1", "h", "1", "m", "1", "s">>
        /\ val[p] = IntV(3661)
        /\ pc = "done" /\ err = NoErr

NoCapability(t) == t.scan = "none" /\ t.text = "none" /\ t.json = "none"

\* the fields of Plain without a hint whose type has no rule and no
\* capability: a map, a record, a sequence of maps
Unsupported ==
    {p \in Plain :
        LET t == TheField(p).type
        IN  /\ SpecOf(p).parserType = <<>>
            /\ NoCapability(t)
            /\ \/ t.kind \in {"map", "struct"}
               \/ t.kind = "slice" /\ t.elem.kind = "map" /\ NoCapability(t.elem)}

\* C20: a writable field of a type with no coercion rule and no capability
\* fails the call with UnsupportedType, naming the field, when its source
\* string is not empty, and is left alone, without error, when it is empty.
C20_UnsupportedType ==
    \A p \in Unsupported :
        /\ CallsOf(p) = <<>> /\ mech[p] = "none" /\ Holds(p, pre[p])
        /\ IF resolved[p] # <<>>
           THEN FailedAt(p, "UnsupportedType") /\ err.field = TheField(p).name
           ELSE err # NoErr => err.at # p

\* a sequence of maps with a non-empty source string has failed the call
\* with UnsupportedType
C20_Witness ==
    \E p \in Unsupported :
        /\ TheField(p).type.kind = "slice"
        /\ resolved[p] # <<>>
        /\ pc = "done" /\ FailedAt(p, "UnsupportedType")
        /\ val[p] = pre[p]

\* the kinds of error to which an environment key applies
KeyKinds == {"MissingRequired", "InvalidInt", "InvalidUint", "InvalidBool", "InvalidDuration"}

\* C21 as claimed: every error names the field that raised it, and carries
\* the environment key as well when it is MissingRequired or one of the
\* Invalid* errors of the coercion.
C21_AsClaimed ==
    err # NoErr =>
        /\ err.field = TheField(err.at).name
        /\ err.kind \in KeyKinds => err.key = SpecOf(err.at).envKey

\* the segments of the tag of p that follow the key, as a sequence and as a
\* set
OptSeq(p) == Tail(Split(TheField(p).tag))

OptSet(p) == {OptSeq(p)[i] : i \in 1..Len(OptSeq(p))}

Forms == {"default=", "setter=", "parser="}

\* the tag of p holds at most one segment of each recognized form
AtMostOne(p) ==
    /\ \A f \in Forms :
          Cardinality({i \in 1..Len(OptSeq(p)) : HasPrefix(OptSeq(p)[i], f)}) <= 1
    /\ Cardinality({i \in 1..Len(OptSeq(p)) : OptSeq(p)[i] = <<"required">>}) <= 1

\* what follows the form f in the segment of the set S that starts with it
ValueIn(S, f) ==
    IF \E s \in S : HasPrefix(s, f) THEN Tail(CHOOSE s \in S : HasPrefix(s, f))
    ELSE <<>>

\* C22: parsing a tag never fails, the first segment is the key, and when
\* the tag holds at most one segment of each recognized form the result
\* depends on the set of the segments that follow the key only: not on
\* their order, and not on the segments of no recognized form among them.
C22_TagOrder ==
    /\ \A p \in Paths :
          (Tagged(p) /\ Visited(p) /\ resolved[p] = None) =>
              FailedAt(p, "MissingRequired")
    /\ (pc = "dispatch" /\ AtMostOne(CurPath)) =>
          LET S == OptSet(CurPath)
          IN  /\ cur.envKey = Split(CurField.tag)[1]
              /\ cur.required = (<<"required">> \in S)
              /\ cur.defaultVal = ValueIn(S, "default=")
              /\ cur.setterName = ValueIn(S, "setter=")
              /\ cur.parserType = ValueIn(S, "parser=")

\* the tag "K1,3,parser=text,required" has been parsed: the segment of no
\* recognized form leads, and the hint and `required` behind it are found
C22_Witness ==
    /\ pc = "dispatch"
    /\ OptSeq(CurPath) = << <<"3">>, <<"parser=", "text">>, <<"required">> >>
    /\ cur.envKey = K1 /\ cur.required /\ cur.parserType = <<"text">>
    /\ cur.defaultVal = <<>> /\ cur.setterName = <<>>

\* C24 as claimed: a non-empty string without a comma binds a scalar field
\* exactly when it binds a sequence field of that element type, and the
\* sequence is then the one-element sequence of the value the scalar holds.
C24_AsClaimed ==
    \A p \in Scalars :
        (resolved[p] # <<>> /\ CountCommas(resolved[p]) = 0) =>
            LET seq == Coerce(SliceOf(TheField(p).type), resolved[p])
            IN  /\ seq.ok <=> ~(err # NoErr /\ err.at = p)
                /\ seq.ok => seq.v = ListV(<<val[p]>>)

\* C25 as claimed: within one call no hook of a tagged field (the named
\* setter, Scan, UnmarshalText, UnmarshalJSON) is invoked a second time for
\* that field (for the same element, in a sequence), also when it has
\* answered with an error and a later mechanism is tried.
C25_AsClaimed ==
    \A i, j \in 1..Len(calls) :
        (/\ calls[i].path = calls[j].path
         /\ calls[i].hook = calls[j].hook
         /\ calls[i].elem = calls[j].elem) => i = j

\* what follows `default=` in the last segment of the tag of p that starts
\* with it, the empty string when there is none
LastDefault(p) ==
    LET D == {i \in 1..Len(OptSeq(p)) : HasPrefix(OptSeq(p)[i], "default=")}
    IN  IF D = {} THEN <<>>
        ELSE Tail(OptSeq(p)[CHOOSE i \in D : \A j \in D : j <= i])

Missing == {p \in MissingFields : Visited(p)}

\* C28: within a field the required check comes first.  A required field
\* with no default and an unset key fails with MissingRequired, also when
\* its tag names a setter the record does not have, when it is not
\* writable and when its type has Scan; no hook of the field is invoked
\* and ParseEnv does not write the field.
C28_RequiredFirst ==
    \A p \in Missing :
        /\ FailedAt(p, "MissingRequired")
        /\ CallsOf(p) = <<>>
        /\ mech[p] = "none"
        /\ Holds(p, pre[p])

\* an unexported field whose type has Scan and whose tag names a setter the
\* record lacks has failed with MissingRequired
C28_Witness ==
    \E p \in Missing :
        /\ ~TheField(p).exported
        /\ TheField(p).type.scan = "ok"
        /\ SpecOf(p).setterName = SetA
        /\ MethodByName(RecAt(decl, Front(p)), SetA) = {}
        /\ FailedAt(p, "MissingRequired")
        /\ calls = <<>>

\* the fields that are not writable, name no setter and have nothing to be
\* written: the resolved source string is empty
NothingToWrite ==
    {p \in Unexported : SpecOf(p).setterName = <<>> /\ resolved[p] = <<>>}

\* C29 as claimed: FieldNotSettable is returned only when the field must be
\* written: a field that is not writable, names no setter and has an empty
\* source string does not make the call fail.
C29_AsClaimed ==
    \A p \in NothingToWrite : ~(err # NoErr /\ err.at = p)

\* C29 amended: FieldNotSettable does not depend on there being something
\* to write.  A tagged field that is not writable and names no setter fails
\* the call with FieldNotSettable also when its source string is empty (it
\* is not required, has no default and its key is unset); no hook is called
\* and the field is not written.
C29_NotSettable ==
    \A p \in NothingToWrite :
        /\ FailedAt(p, "FieldNotSettable")
        /\ pc \in {"return", "done"}
        /\ CallsOf(p) = <<>>
        /\ mech[p] = "none"
        /\ Holds(p, pre[p])

\* the call has ended with FieldNotSettable at a field that is neither
\* required nor has a default and whose key is unset
C29_Witness ==
    /\ pc = "done"
    /\ \E p \in NothingToWrite :
          /\ ~SpecOf(p).required /\ SpecOf(p).defaultVal = <<>>
          /\ SpecOf(p).envKey = K1 /\ env[K1] = Unset
          /\ FailedAt(p, "FieldNotSettable")

\* the fields of Resolved whose tag carries `parser=V` with a V that is
\* neither text nor json
OtherHint == {p \in Resolved : SpecOf(p).parserType \notin {<<>>, <<"text">>, <<"json">>}}

\* C30 as claimed: `parser=V` with such a V is a segment like any
\* unrecognized one: the field is bound as the same field without the
\* segment is, here a writable field that neither a named setter nor Scan
\* takes: untouched when the source string is empty, and otherwise bound
\* to what the implicit decoders and the coercion of its kind make of it,
\* or failing with their error.
C30_AsClaimed ==
    \A p \in OtherHint \cap Plain :
        LET c == Coerce(TheField(p).type, resolved[p])
        IN  IF resolved[p] = <<>> THEN ~(err # NoErr /\ err.at = p) /\ Holds(p, pre[p])
            ELSE IF c.ok THEN ~(err # NoErr /\ err.at = p) /\ Holds(p, c.v)
            ELSE FailedAt(p, c.kind)

\* C30 amended: the V is kept as the hint of the field.  A writable field
\* that neither a named setter nor Scan takes fails with
\* UnsupportedParserHint when its source string is not empty, whatever
\* decoders its type has, none being called; with an empty source string it
\* is left untouched without error.  A field taken by its named setter or
\* by Scan, or failing as not writable, is bound as without the segment.
C30_OtherHint ==
    \A p \in OtherHint :
        /\ (p \in Plain /\ resolved[p] # <<>>) =>
              /\ FailedAt(p, "UnsupportedParserHint")
              /\ CallsOf(p) = <<>> /\ mech[p] = "none" /\ Holds(p, pre[p])
        /\ (p \in Plain /\ resolved[p] = <<>>) =>
              /\ ~(err # NoErr /\ err.at = p)
              /\ CallsOf(p) = <<>> /\ mech[p] = "none" /\ Holds(p, pre[p])
        /\ p \in SetterFields =>
              Len(CallsOf(p)) = 1 /\ CallsOf(p)[1].hook = "setter"
        /\ (p \in Unexported /\ SpecOf(p).setterName = <<>>) =>
              FailedAt(p, "FieldNotSettable")
        /\ (p \in ScanFields /\ TheField(p).exported) => ScannedOnly(p)

\* a writable field tagged "K1,parser=x" whose type has a text decoder that
\* accepts everything has failed with UnsupportedParserHint on the string
\* "1", the decoder not called
C30_Witness ==
    \E p \in OtherHint \cap Plain :
        /\ SpecOf(p).parserType = <<"x">>
        /\ TheField(p).type.text = "ok"
        /\ resolved[p] = <<"1">>
        /\ FailedAt(p, "UnsupportedParserHint")
        /\ calls = <<>>

\* C26: on a record that uses built-in coercion only, a second call on
\* the record a successful first call has left, under the same environment,
\* succeeds and leaves the record as the first call left it: a sequence is
\* replaced, not appended to.
C26_Idempotent ==
    (phase = "again" /\ pc = "done") =>
        /\ err = NoErr
        /\ val = solo[1].val

\* the second call has returned on a record whose sequence field held an
\* element of an earlier use before the first call and two elements after
C26_Witness ==
    /\ phase = "again" /\ pc = "done"
    /\ \E p \in Paths :
          /\ TheField(p).type = SliceOf(Ty("int"))
          /\ solo[1].pre[p] # ListV(<<>>)
          /\ val[p] = ListV(<<IntV(1), IntV(3)>>)
          /\ mech[p] = "builtin"

\* the call c has left what the call o, which ran alone, has left
Same(c, o) ==
    /\ c.decl = o.decl /\ c.pre = o.pre
    /\ c.err = o.err /\ c.val = o.val /\ c.calls = o.calls

\* C23: two calls that run at the same time on two records, under one
\* environment that does not change, are independent.  However their steps
\* are interleaved, each returns the error and leaves its record in the
\* state of the call that ran alone, having invoked the same hooks, and the
\* environment is as it was.
C23_Independent ==
    phase = "both" =>
        /\ env = solo[1].env /\ env = solo[2].env
        /\ pc = "done" => Same(Mine, solo[turn])
        /\ parked.pc = "done" => Same(parked, solo[3 - turn])
        /\ decl = solo[turn].decl /\ pre = solo[turn].pre
        /\ parked.decl = solo[3 - turn].decl /\ parked.pre = solo[3 - turn].pre

\* both calls have returned, the first after the second: one with an error
\* and one without, each having invoked a hook
C23_Witness ==
    /\ phase = "both" /\ turn = 1
    /\ pc = "done" /\ parked.pc = "done"
    /\ err = NoErr /\ calls # <<>>
    /\ parked.err # NoErr /\ parked.calls # <<>>

=============================================================================
